---- MODULE Spec2Model ----
(***************************************************************************)
(* Storage-engine core of the ToyDB extension: the slotted-page codec and  *)
(* the student record file (objective 2), the PF buffer manager buf.c      *)
(* (objective 1) and the bottom-up index bulk loader (objective 3).        *)
(*                                                                         *)
(* Five specifications share the module:                                   *)
(*   SpecSP  one slotted page under SP_* calls                             *)
(*   SpecSF  a student record file under SF_* calls                        *)
(*   SpecBP  the buffer pool under PFbuf* calls, its counters hidden       *)
(*   SpecBS  the buffer pool of one file together with its counters        *)
(*   SpecBL  method3_bulk_load, step by step, over the PF layer            *)
(***************************************************************************)
EXTENDS Integers, Sequences, FiniteSets, TLC

VARIABLES
    spPage,      \* SpecSP: char page_data[SP_PAGE_SIZE], run-length encoded
    spState,     \* SpecSP: "ok", or "killed" once an out-of-bounds memcpy ended the process
    spLast,      \* SpecSP: the last SP_* call and what it returned
    spOps,       \* SpecSP: number of calls made so far
    spDead,      \* SpecSP: the slots deleted and not handed out again by an insert since
    spClean,     \* SpecSP: no call so far left the page buffer or deleted a negative slot
    sf,          \* SpecSF: StudentFile {num_pages, num_records}
    sfDisk,      \* SpecSF: the data pages of the file on disk, page 0 first
    sfIssued,    \* SpecSF: the RecordIDs returned by inserts so far
    sfOrder,     \* SpecSF: the RecordIDs of the inserts that returned SP_OK, in call order
    sfLive,      \* SpecSF: RecordID -> bytes handed to the insert that returned it
    sfState,     \* SpecSF: "ok" or "killed"
    sfLast,      \* SpecSF: the last SF_* call and what it returned
    sfOps,       \* SpecSF: <<inserts made, deletes made>>
    bp,          \* SpecBP: the statics of buf.c and the hash table: frames, used, free, hash
    bpStrategy,  \* SpecBP: current_strategy
    bpDirtied,   \* SpecBP: the (fd, page) marked dirty by a caller and not written since
    bpLast,      \* SpecBP: the last call, what it returned and what it did, in order
    bpTouched,   \* SpecBP: the cached (fd, page), the last allocated, unfixed or marked used first
    bpStat,      \* SpecBS: the stat_* counters of buf.c
    bpWrote,     \* SpecBS: write callbacks that returned PFE_OK since the counters were reset
    bpCalls,     \* SpecBS: number of calls made so far
    bpModes,     \* SpecBM: per page, the mode it was pinned under or how it was unpinned
    bl,          \* SpecBL: the locals of method3_bulk_load and where it stands
    blFile       \* SpecBL: the index file as the PF layer holds it

spVars == <<spPage, spState, spLast, spOps, spDead, spClean>>
sfVars == <<sf, sfDisk, sfIssued, sfOrder, sfLive, sfState, sfLast, sfOps>>
bpVars == <<bp, bpStrategy, bpDirtied, bpLast, bpTouched>>
stVars == <<bpStat, bpWrote, bpCalls>>
blVars == <<bl, blFile>>
pmVars == <<bpModes>>

vars == <<spVars, sfVars, bpVars, stVars, blVars, pmVars>>

(* What a step of one specification leaves alone. *)
exceptSP == <<sfVars, bpVars, stVars, blVars, pmVars>>
exceptSF == <<spVars, bpVars, stVars, blVars, pmVars>>
exceptBP == <<spVars, sfVars, stVars, blVars, pmVars>>
exceptBS == <<spVars, sfVars, blVars, pmVars>>
exceptBL == <<spVars, sfVars, bpVars, stVars, pmVars>>
exceptBM == <<spVars, sfVars, stVars, blVars>>

----------------------------------------------------------------------------
(* Program constants. *)

SP_PAGE_SIZE == 4096
SP_HEADER_SIZE == 32
SP_SLOT_SIZE == 4

SP_OK == 0
SP_ERROR == 0 - 1
SP_NO_SPACE == 0 - 2
SP_INVALID_SLOT == 0 - 3

(* Byte offsets of the SlottedPageHeader fields (int, short, short, short,  *)
(* two bytes of padding, int, int, char[8]).                               *)
OFF_page_id == 0
OFF_num_slots == 4
OFF_free_space_offset == 6
OFF_free_space_size == 8
OFF_next_page == 12
OFF_prev_page == 16
OFF_reserved == 20
RESERVED_LEN == 8

(* A byte read from outside the page buffer: its value is not determined.  *)
Indet == 0 - 1

----------------------------------------------------------------------------
(* Integer widths. *)

Min(a, b) == IF a < b THEN a ELSE b
Max(a, b) == IF a > b THEN a ELSE b

(* Conversion of an int to short (two's complement, 16 bit). *)
ToShort(x) == ((x + 32768) % 65536) - 32768

----------------------------------------------------------------------------
(* Byte buffers.  A buffer is a sequence of runs <<end, v>>: the bytes from  *)
(* the end of the run before (0 for the first) up to end hold v; adjacent   *)
(* runs differ in v, so equal buffers are equal values.                     *)

Fill(n, v) == IF n <= 0 THEN <<>> ELSE << <<n, v>> >>

MLen(m) == IF m = <<>> THEN 0 ELSE m[Len(m)][1]

RunStart(m, i) == IF i = 1 THEN 0 ELSE m[i - 1][1]

(* The run among lo..hi that holds the byte at addr, by bisection. *)
RECURSIVE RunSearch(_, _, _, _)
RunSearch(m, lo, hi, addr) ==
    IF lo >= hi THEN lo
    ELSE LET mid == (lo + hi) \div 2
         IN  IF addr < m[mid][1] THEN RunSearch(m, lo, mid, addr)
             ELSE RunSearch(m, mid + 1, hi, addr)

(* The run that holds the byte at addr, 0 <= addr < MLen(m). *)
RunAt(m, addr) == RunSearch(m, 1, Len(m), addr)

(* The runs of m, d bytes further on. *)
Shift(m, d) == [i \in 1..Len(m) |-> <<m[i][1] + d, m[i][2]>>]

(* Concatenation, merging the runs that meet. *)
MCat(a, b) ==
    IF a = <<>> THEN b
    ELSE IF b = <<>> THEN a
    ELSE IF a[Len(a)][2] = b[1][2]
         THEN SubSeq(a, 1, Len(a) - 1) \o Shift(b, MLen(a))
         ELSE a \o Shift(b, MLen(a))

(* The first k bytes of m. *)
MTake(m, k) ==
    IF k <= 0 THEN <<>>
    ELSE IF k >= MLen(m) THEN m
    ELSE LET i == RunAt(m, k - 1)
         IN  SubSeq(m, 1, i - 1) \o << <<k, m[i][2]>> >>

(* m without its first k bytes. *)
MDrop(m, k) ==
    IF k <= 0 THEN m
    ELSE IF k >= MLen(m) THEN <<>>
    ELSE Shift(SubSeq(m, RunAt(m, k), Len(m)), 0 - k)

(* Bytes [addr, addr+len) of m; both ends inside m. *)
MRead(m, addr, len) == MTake(MDrop(m, addr), len)

MByte(m, addr) == m[RunAt(m, addr)][2]

(* m with data stored at addr; the store lies inside m. *)
MWrite(m, addr, data) ==
    MCat(MCat(MTake(m, addr), data), MDrop(m, addr + MLen(data)))

(* A buffer from a sequence of byte values. *)
RECURSIVE MFromSeq(_, _)
MFromSeq(s, i) == IF i > Len(s) THEN <<>> ELSE MCat(Fill(1, s[i]), MFromSeq(s, i + 1))

(* Little-endian encodings. *)
U16(x) == (x + 65536) % 65536
EncShort(x) == MFromSeq(<<U16(x) % 256, U16(x) \div 256>>, 1)
EncInt(x) == MCat(EncShort(x % 65536), EncShort(x \div 65536))

(* An undetermined byte decodes as 0 here; every caller that can meet one  *)
(* has already recorded the out-of-bounds access.                          *)
ByteVal(b) == IF b = Indet THEN 0 ELSE b
RdShort(m, addr) == ToShort(ByteVal(MByte(m, addr)) + 256 * ByteVal(MByte(m, addr + 1)))
WrShort(m, addr, x) == MWrite(m, addr, EncShort(x))
WrInt(m, addr, x) == MWrite(m, addr, EncInt(x))

(* memcpy(page + addr, data, len) into a buffer of SP_PAGE_SIZE bytes: the  *)
(* part of the store that falls inside the buffer.                         *)
InPage(addr, len) == addr >= 0 /\ len >= 0 /\ addr + len <= SP_PAGE_SIZE

StoreClip(m, addr, data) ==
    LET len == MLen(data)
        lo == Max(addr, 0)
        hi == Min(addr + len, SP_PAGE_SIZE)
    IN  IF lo >= hi THEN m
        ELSE MWrite(m, lo, MRead(data, lo - addr, hi - lo))

(* memcpy(dst, page + addr, len): bytes outside the buffer are undetermined. *)
LoadClip(m, addr, len) ==
    IF len <= 0 THEN <<>>
    ELSE LET lo == Max(addr, 0)
             hi == Min(addr + len, SP_PAGE_SIZE)
         IN  IF lo >= hi THEN Fill(len, Indet)
             ELSE MCat(MCat(Fill(lo - addr, Indet), MRead(m, lo, hi - lo)),
                       Fill(addr + len - hi, Indet))

----------------------------------------------------------------------------
(* Slotted page codec (slotted_page.c). *)

NumSlots(p) == RdShort(p, OFF_num_slots)
FreeOff(p) == RdShort(p, OFF_free_space_offset)
FreeSize(p) == RdShort(p, OFF_free_space_size)

(* Address of slots[i] in the page. *)
SlotAddr(i) == SP_HEADER_SIZE + i * SP_SLOT_SIZE
SlotIn(i) == InPage(SlotAddr(i), SP_SLOT_SIZE)

(* slots[i].offset and slots[i].length; a slot outside the buffer reads as
   undetermined bytes. *)
SlotOffset(p, i) == IF SlotIn(i) THEN RdShort(p, SlotAddr(i)) ELSE 0
SlotLength(p, i) == IF SlotIn(i) THEN RdShort(p, SlotAddr(i) + 2) ELSE 0

SlotEntry(off, len) == MCat(EncShort(off), EncShort(len))

SP_InitPage(page_data) ==
    LET p1 == WrInt(page_data, OFF_page_id, 0)
        p2 == WrShort(p1, OFF_num_slots, 0)
        p3 == WrShort(p2, OFF_free_space_offset, SP_PAGE_SIZE)
        p4 == WrShort(p3, OFF_free_space_size, SP_PAGE_SIZE - SP_HEADER_SIZE)
        p5 == WrInt(p4, OFF_next_page, 0 - 1)
        p6 == WrInt(p5, OFF_prev_page, 0 - 1)
    IN  MWrite(p6, OFF_reserved, Fill(RESERVED_LEN, 0))

(* The directory entries that fit in the page buffer; a loop over the
   directory leaves the buffer at slot MaxSlots. *)
MaxSlots == (SP_PAGE_SIZE - SP_HEADER_SIZE) \div SP_SLOT_SIZE

(* The least member of a set of numbers, -1 for the empty set: the index at
   which an ascending loop breaks, and the idx = -1 of a loop that does not. *)
MinOrNone(S) == IF S = {} THEN 0 - 1 ELSE CHOOSE i \in S : \A j \in S : i <= j

(* The greatest member of a set of numbers, -1 for the empty set. *)
MaxOrNone(S) == IF S = {} THEN 0 - 1 ELSE CHOOSE i \in S : \A j \in S : i >= j

(* for (i = 0; i < num_slots; ++i) if (slots[i] is (0,0)) break: the first
   tombstone, or -1. *)
FirstTombstone(p) ==
    MinOrNone({i \in 0..(Min(NumSlots(p), MaxSlots) - 1) :
                  SlotOffset(p, i) = 0 /\ SlotLength(p, i) = 0})

(* A slot loop that takes every slot for live. *)
NextSlot(p, i, n) == IF i < Min(n, MaxSlots) THEN i ELSE 0 - 1

(* The first slot from i on, below n, with offset # 0, or -1. *)
NextLive(p, i, n) ==
    MinOrNone({j \in i..(Min(n, MaxSlots) - 1) : SlotOffset(p, j) # 0})

(* A space test that forgets the slot entry. *)
RecordOnly(rec_len) == rec_len

(* int need = rec_len + SP_SLOT_SIZE: the space test and the charge against
   free_space_size. *)
SpaceNeeded(rec_len) == rec_len + SP_SLOT_SIZE

(* SP_InsertRecord in the order of its statements.  Each step hands on the
   page, the slot index and ub = some access fell outside the page buffer. *)

(* idx = the tombstone found, or hdr->num_slots++. *)
TakeSlot(p, n, found) ==
    IF found = 0 - 1
    THEN [page |-> WrShort(p, OFF_num_slots, ToShort(n + 1)), idx |-> n,
          ub |-> n > MaxSlots]
    ELSE [page |-> p, idx |-> found, ub |-> FALSE]

(* The memcpy of the record to new_off, slots[idx] = (new_off, rec_len),
   free_space_offset = new_off. *)
CopyRecordAt(s, record, rec_len, new_off) ==
    [page |-> WrShort(StoreClip(StoreClip(s.page, new_off, record),
                                SlotAddr(s.idx), SlotEntry(new_off, rec_len)),
                      OFF_free_space_offset, new_off),
     idx |-> s.idx,
     ub |-> s.ub \/ (rec_len > 0 /\ ~InPage(new_off, rec_len)) \/ ~SlotIn(s.idx)]

(* short new_off = hdr->free_space_offset - rec_len. *)
CopyRecord(s, record, rec_len) ==
    CopyRecordAt(s, record, rec_len, ToShort(FreeOff(s.page) - rec_len))

(* hdr->free_space_size -= need. *)
ChargeSpace(s, rec_len) ==
    [rc |-> SP_OK,
     page |-> WrShort(s.page, OFF_free_space_size,
                      ToShort(FreeSize(s.page) - SpaceNeeded(rec_len))),
     slot |-> s.idx, ub |-> s.ub]

(* Result: rc, the page afterwards, the slot number, and ub. *)
SP_InsertRecord(page_data, record, rec_len) ==
    IF FreeSize(page_data) < SpaceNeeded(rec_len)
    THEN [rc |-> SP_NO_SPACE, page |-> page_data, slot |-> 0 - 1, ub |-> FALSE]
    ELSE ChargeSpace(
             CopyRecord(TakeSlot(page_data, NumSlots(page_data),
                                 FirstTombstone(page_data)),
                        record, rec_len),
             rec_len)

(* hdr->free_space_size += rec_len, rec_len read before the slot was zeroed. *)
CreditSpace(p1, rec_len, ub) ==
    [rc |-> SP_OK,
     page |-> WrShort(p1, OFF_free_space_size, ToShort(FreeSize(p1) + rec_len)),
     ub |-> ub]

SP_DeleteRecord(page_data, slot_num) ==
    IF slot_num >= NumSlots(page_data)
    THEN [rc |-> SP_INVALID_SLOT, page |-> page_data, ub |-> FALSE]
    ELSE CreditSpace(StoreClip(page_data, SlotAddr(slot_num), SlotEntry(0, 0)),
                     SlotLength(page_data, slot_num), ~SlotIn(slot_num))

SP_GetRecord(page_data, slot_num) ==
    IF slot_num >= NumSlots(page_data)
    THEN [rc |-> SP_INVALID_SLOT, rec_len |-> 0, record |-> <<>>, ub |-> FALSE]
    ELSE IF SlotOffset(page_data, slot_num) = 0
    THEN [rc |-> SP_INVALID_SLOT, rec_len |-> 0, record |-> <<>>,
          ub |-> ~SlotIn(slot_num)]
    ELSE [rc |-> SP_OK, rec_len |-> SlotLength(page_data, slot_num),
          record |-> LoadClip(page_data, SlotOffset(page_data, slot_num),
                              SlotLength(page_data, slot_num)),
          ub |-> \/ ~SlotIn(slot_num)
                 \/ ~InPage(SlotOffset(page_data, slot_num),
                            SlotLength(page_data, slot_num))]

SP_GetFreeSpace(page_data) == FreeSize(page_data)

(* A round of the copy loop that moves the bytes but leaves the old offset in
   the slot entry. *)
RecordStays(backup, live, acc, offset) ==
    [page |-> StoreClip(
                  StoreClip(acc.page, offset,
                            LoadClip(backup, SlotOffset(backup, live),
                                     SlotLength(backup, live))),
                  SlotAddr(acc.new_count),
                  SlotEntry(SlotOffset(backup, live), SlotLength(backup, live))),
     offset |-> offset,
     new_count |-> acc.new_count + 1,
     ub |-> \/ ~InPage(SlotOffset(backup, live), SlotLength(backup, live))
            \/ (SlotLength(backup, live) > 0
                /\ ~InPage(offset, SlotLength(backup, live)))
            \/ ~SlotIn(acc.new_count)]

(* One round of the copy loop of SP_CompactPage for the live source slot:
   offset -= rlen, the memcpy from backup, new_slots[new_count], new_count++. *)
CompactCopy(backup, live, acc, offset) ==
    [page |-> StoreClip(
                  StoreClip(acc.page, offset,
                            LoadClip(backup, SlotOffset(backup, live),
                                     SlotLength(backup, live))),
                  SlotAddr(acc.new_count),
                  SlotEntry(offset, SlotLength(backup, live))),
     offset |-> offset,
     new_count |-> acc.new_count + 1,
     ub |-> \/ ~InPage(SlotOffset(backup, live), SlotLength(backup, live))
            \/ (SlotLength(backup, live) > 0
                /\ ~InPage(offset, SlotLength(backup, live)))
            \/ ~SlotIn(acc.new_count)]

(* The copy loop from source slot i on: acc carries the page being rebuilt,
   the running offset and the number of slots written.  The loop is followed
   up to its first access outside a buffer. *)
RECURSIVE CompactLoop(_, _, _, _)
RECURSIVE CompactFrom(_, _, _, _)
CompactLoop(backup, i, n, acc) ==
    IF acc.ub THEN acc ELSE CompactFrom(backup, n, acc, NextLive(backup, i, n))

CompactFrom(backup, n, acc, live) ==
    IF live = 0 - 1 THEN [acc EXCEPT !.ub = n > MaxSlots]
    ELSE CompactLoop(backup, live + 1, n,
             CompactCopy(backup, live, acc,
                         ToShort(acc.offset - SlotLength(backup, live))))

(* A header update that forgets the directory when it computes the free
   space. *)
FinishWithoutDirectory(acc) ==
    [rc |-> SP_OK,
     page |-> WrShort(
                  WrShort(WrShort(acc.page, OFF_num_slots, ToShort(acc.new_count)),
                          OFF_free_space_offset, acc.offset),
                  OFF_free_space_size,
                  ToShort(acc.offset - SP_HEADER_SIZE)),
     ub |-> acc.ub]

(* new_hdr->num_slots, free_space_offset and free_space_size after the loop. *)
CompactFinish(acc) ==
    [rc |-> SP_OK,
     page |-> WrShort(
                  WrShort(WrShort(acc.page, OFF_num_slots, ToShort(acc.new_count)),
                          OFF_free_space_offset, acc.offset),
                  OFF_free_space_size,
                  ToShort(acc.offset - SP_HEADER_SIZE
                          - acc.new_count * SP_SLOT_SIZE)),
     ub |-> acc.ub]

SP_CompactPage(page_data, mallocOK) ==
    IF ~mallocOK THEN [rc |-> SP_ERROR, page |-> page_data, ub |-> FALSE]
    ELSE CompactFinish(
             CompactLoop(page_data, 0, NumSlots(page_data),
                 [page |-> SP_InitPage(page_data), offset |-> SP_PAGE_SIZE,
                  new_count |-> 0, ub |-> FALSE]))

----------------------------------------------------------------------------
(* Scan over the pages of a file (slotted_page.c). *)

(* A scan that is told one page fewer than the file has. *)
ScanShort(total_pages) ==
    [curr_page |-> 0, curr_slot |-> 0, total_pages |-> total_pages - 1]

SP_OpenScan(total_pages) ==
    [curr_page |-> 0, curr_slot |-> 0, total_pages |-> total_pages]

(* return SP_ERROR, at the end of the file or where the slot loop left the
   page buffer. *)
ScanEnd(handle, ub) ==
    [rc |-> SP_ERROR, handle |-> handle, rec_len |-> 0, record |-> <<>>,
     rid |-> <<0 - 1, 0 - 1>>, ub |-> ub]

(* The record of the live slot the loop stopped at. *)
ScanHit(handle, page_buf, live) ==
    [rc |-> SP_OK, handle |-> [handle EXCEPT !.curr_slot = live + 1],
     rec_len |-> SlotLength(page_buf, live),
     record |-> LoadClip(page_buf, SlotOffset(page_buf, live),
                         SlotLength(page_buf, live)),
     rid |-> <<handle.curr_page, live>>,
     ub |-> ~InPage(SlotOffset(page_buf, live), SlotLength(page_buf, live))]

(* Result: rc, the handle afterwards and, when rc = SP_OK, the record, its
   length and RecordID.  disk is the sequence of data pages behind handle.fd;
   a page past the end of the file cannot be read. *)
RECURSIVE SP_GetNextRecord(_, _)
RECURSIVE ScanPage(_, _, _, _)
SP_GetNextRecord(handle, disk) ==
    IF handle.curr_page >= handle.total_pages \/ handle.curr_page >= Len(disk)
    THEN ScanEnd(handle, FALSE)
    ELSE ScanPage(handle, disk, disk[handle.curr_page + 1],
                  NextLive(disk[handle.curr_page + 1], handle.curr_slot,
                           NumSlots(disk[handle.curr_page + 1])))

ScanPage(handle, disk, page_buf, live) ==
    IF live # 0 - 1 THEN ScanHit(handle, page_buf, live)
    ELSE IF NumSlots(page_buf) > MaxSlots THEN ScanEnd(handle, TRUE)
    ELSE SP_GetNextRecord(
             [handle EXCEPT !.curr_page = handle.curr_page + 1, !.curr_slot = 0],
             disk)

(* while (SP_GetNextRecord(&handle, record, &rec_len, &rid) == SP_OK): the
   RecordIDs the loop is handed, in order, up to the end of the scan or to
   the first copy that leaves the page buffer. *)
RECURSIVE SpScanLoop(_, _, _)
RECURSIVE SpScanStep(_, _, _)
SpScanLoop(handle, disk, got) ==
    SpScanStep(disk, got, SP_GetNextRecord(handle, disk))

SpScanStep(disk, got, r) ==
    IF r.rc # SP_OK THEN [rids |-> got, ub |-> r.ub]
    ELSE IF r.ub THEN [rids |-> Append(got, r.rid), ub |-> TRUE]
    ELSE SpScanLoop(r.handle, disk, Append(got, r.rid))

----------------------------------------------------------------------------
(* Student record file (student_file.c).  TLA+ reserves the prefix of the
   SF_ functions, so SF_InsertStudent is SFInsertStudent here, and so on. *)

(* sizeof of the char fields of StudentRecord, in the order serialize_student
   prints them (join_yr, an int, comes sixth). *)
SZ_roll_no == 20
MAX_NAME_LEN == 100
SZ_batch == 10
SZ_degree == 20
SZ_dept == 10
SZ_categ == 10
SZ_sex == 2
SZ_birthdate == 20
MAX_ADDR_LEN == 200
SZ_city == 50
SZ_state == 50
SZ_pincode == 10

(* char buffer[2048] of SF_InsertStudent and SF_GetStudent. *)
SFBUFFER_SIZE == 2048

CH_SEMI == 59
CH_MINUS == 45
CH_ZERO == 48
CH_NUL == 0

(* "%d" *)
RECURSIVE Decimal(_)
Decimal(n) ==
    IF n < 0 THEN MCat(Fill(1, CH_MINUS), Decimal(0 - n))
    ELSE IF n < 10 THEN Fill(1, CH_ZERO + n)
    ELSE MCat(Decimal(n \div 10), Fill(1, CH_ZERO + (n % 10)))

RECURSIVE JoinSemi(_, _)
JoinSemi(fields, i) ==
    IF i > Len(fields) THEN <<>>
    ELSE IF i = Len(fields) THEN fields[i]
    ELSE MCat(MCat(fields[i], Fill(1, CH_SEMI)), JoinSemi(fields, i + 1))

(* serialize_student: the fields joined by ';' and the terminating NUL;
   *len = strlen(buffer) + 1. *)
serialize_student(rec) ==
    MCat(JoinSemi(<<rec.roll_no, rec.name, rec.batch, rec.degree, rec.dept,
                    Decimal(rec.join_yr), rec.categ, rec.sex, rec.father_name,
                    rec.birthdate, rec.address, rec.city, rec.state,
                    rec.pincode>>, 1),
         Fill(1, CH_NUL))

(* The last page, in file order, on which SP_InsertRecord succeeds, or -1. *)
LastFit(disk, buffer) ==
    MaxOrNone({pn \in 0..(Len(disk) - 1) :
                  SP_InsertRecord(disk[pn + 1], buffer, MLen(buffer)).rc = SP_OK})

(* The first page, in file order, on which SP_InsertRecord succeeds, or -1. *)
FirstFit(disk, buffer) ==
    MinOrNone({pn \in 0..(Len(disk) - 1) :
                  SP_InsertRecord(disk[pn + 1], buffer, MLen(buffer)).rc = SP_OK})

(* The record went into page page_num: the page is written back. *)
InsertedInPage(sfile, disk, page_num, r) ==
    [rc |-> SP_OK,
     sf |-> [sfile EXCEPT !.num_records = sfile.num_records + 1],
     disk |-> [disk EXCEPT ![page_num + 1] = r.page],
     rid |-> <<page_num, r.slot>>, ub |-> r.ub]

(* No page took the record: the outcome of the insert into a fresh page. *)
InsertedInNewPage(sfile, disk, r) ==
    IF r.rc # SP_OK
    THEN [rc |-> SP_ERROR, sf |-> sfile, disk |-> disk,
          rid |-> <<0 - 1, 0 - 1>>, ub |-> FALSE]
    ELSE [rc |-> SP_OK,
          sf |-> [num_pages |-> sfile.num_pages + 1,
                  num_records |-> sfile.num_records + 1],
          disk |-> Append(disk, r.page),
          rid |-> <<sfile.num_pages, r.slot>>, ub |-> r.ub]

(* The fresh page is built in the same page_data array, which still holds the
   last page read or, for an empty file, whatever the stack held. *)
InsertAtPage(sfile, disk, buffer, page_num, garbage) ==
    IF page_num # 0 - 1
    THEN InsertedInPage(sfile, disk, page_num,
                        SP_InsertRecord(disk[page_num + 1], buffer, MLen(buffer)))
    ELSE InsertedInNewPage(sfile, disk,
             SP_InsertRecord(
                 SP_InitPage(IF sfile.num_pages > 0 THEN disk[sfile.num_pages]
                             ELSE Fill(SP_PAGE_SIZE, garbage)),
                 buffer, MLen(buffer)))

InsertBuffer(sfile, disk, buffer, garbage) ==
    InsertAtPage(sfile, disk, buffer, FirstFit(disk, buffer), garbage)

(* Result: rc, the StudentFile and the disk afterwards, the RecordID. *)
SFInsertStudent(sfile, disk, rec, garbage) ==
    InsertBuffer(sfile, disk, serialize_student(rec), garbage)

DeletedFromPage(sfile, disk, rid, r) ==
    IF r.rc = SP_OK
    THEN [rc |-> SP_OK,
          sf |-> [sfile EXCEPT !.num_records = sfile.num_records - 1],
          disk |-> [disk EXCEPT ![rid[1] + 1] = r.page], ub |-> r.ub]
    ELSE [rc |-> r.rc, sf |-> sfile, disk |-> disk, ub |-> r.ub]

(* A page past the end of the file cannot be read: SP_ERROR. *)
SFDeleteStudent(sfile, disk, rid) ==
    IF rid[1] < 0 \/ rid[1] >= Len(disk)
    THEN [rc |-> SP_ERROR, sf |-> sfile, disk |-> disk, ub |-> FALSE]
    ELSE DeletedFromPage(sfile, disk, rid, SP_DeleteRecord(disk[rid[1] + 1], rid[2]))

(* The record copied into char buffer[2048]. *)
GotFromPage(r) ==
    [rc |-> r.rc, rec_len |-> r.rec_len, record |-> r.record,
     ub |-> r.ub \/ r.rec_len > SFBUFFER_SIZE]

(* Result: rc and the bytes SP_GetRecord copied into buffer[2048]. *)
SFGetStudent(sfile, disk, rid) ==
    IF rid[1] < 0 \/ rid[1] >= Len(disk)
    THEN [rc |-> SP_ERROR, rec_len |-> 0, record |-> <<>>, ub |-> FALSE]
    ELSE GotFromPage(SP_GetRecord(disk[rid[1] + 1], rid[2]))

SFOpenScan(sfile) == SP_OpenScan(sfile.num_pages)

(* while (SF_GetNextStudent(&scan, &rec) == SP_OK): the records the loop is
   handed, in order, up to the end of the scan or to the first copy that
   leaves a buffer. *)
RECURSIVE ScanLoop(_, _, _)
RECURSIVE ScanStep(_, _, _)
ScanLoop(handle, disk, got) == ScanStep(disk, got, SP_GetNextRecord(handle, disk))

ScanStep(disk, got, r) ==
    IF r.rc # SP_OK THEN [records |-> got, ub |-> r.ub]
    ELSE IF r.ub \/ r.rec_len > SFBUFFER_SIZE
    THEN [records |-> Append(got, [rid |-> r.rid, record |-> r.record]), ub |-> TRUE]
    ELSE ScanLoop(r.handle, disk, Append(got, [rid |-> r.rid, record |-> r.record]))

----------------------------------------------------------------------------
(* Buffer manager (buf.c).  The pool s is a record: frames, the PFbpage
   structures malloc'ed so far (PFnumbpage = Len(s.frames)), each with fd,
   page, fixed and dirty; used, the used list from PFfirstbpage to
   PFlastbpage; free, the free list from PFfreebpage; hash, the hash table of
   the PF layer.  A frame is named by its index in frames; NULL is 0. *)

PFE_OK == 0
PFE_NOMEM == 0 - 1
PFE_NOBUF == 0 - 2
PFE_PAGEFIXED == 0 - 3
PFE_PAGENOTINBUF == 0 - 4
PFE_UNIX == 0 - 5
PFE_INCOMPLETEREAD == 0 - 6
PFE_INCOMPLETEWRITE == 0 - 7
PFE_PAGEUNFIXED == 0 - 16
PFE_PAGEINBUF == 0 - 17
PFE_HASHNOTFOUND == 0 - 18
PFE_HASHPAGEEXIST == 0 - 19

(* exit(1) of PFbufReleaseFile. *)
EXIT_1 == 1

(* Frames the pool may hold (pftypes.h has 20). *)
PF_MAX_BUFS == 2

NULL == 0

(* The fields of a PFbpage fresh from malloc.  buf.c sets fd, page, fixed and
   dirty before it reads them, so what they hold here is never looked at. *)
Uninit == [fd |-> 0 - 1, page |-> 0 - 1, fixed |-> FALSE, dirty |-> FALSE]

(* One thing a call did: a callback, a hash-table call, a list operation or a
   counter increment, with the page and the frame or return code it concerns. *)
Evt(kind, fd, page, x) == <<kind, fd, page, x>>
Stat(name) == Evt(name, 0 - 1, 0 - 1, 0)

(* What the environment does to the call: nothing, or the malloc of a
   PFbpage fails, or the write callback fails (for one page, or for AnyPage),
   or the read callback fails, or the malloc of a hash entry fails. *)
Fault(kind, fd, page, err) == [kind |-> kind, fd |-> fd, page |-> page, err |-> err]
NoFault == Fault("none", 0 - 1, 0 - 1, PFE_OK)

(* The write and read callbacks (PFwritefcn, PFreadfcn of pf.c): PFE_OK, or
   the error of the fault. *)
AnyPage == 0 - 2

PFwritefcn(fault, fd, page) ==
    IF /\ fault.kind = "write"
       /\ fault.fd \in {fd, AnyPage}
       /\ fault.page \in {page, AnyPage}
    THEN fault.err ELSE PFE_OK

PFreadfcn(fault) == IF fault.kind = "read" THEN fault.err ELSE PFE_OK

(* The hash table (hash.c): find, insert (fails on a duplicate and when no
   entry can be malloc'ed) and delete (fails when the entry is absent). *)
PFhashFind(s, fd, page) ==
    IF <<fd, page>> \in DOMAIN s.hash THEN s.hash[<<fd, page>>] ELSE NULL

PFhashInsert(s, fd, page, bpage, mallocOK) ==
    IF <<fd, page>> \in DOMAIN s.hash THEN [rc |-> PFE_HASHPAGEEXIST, s |-> s]
    ELSE IF ~mallocOK THEN [rc |-> PFE_NOMEM, s |-> s]
    ELSE [rc |-> PFE_OK, s |-> [s EXCEPT !.hash = (<<fd, page>> :> bpage) @@ @]]

PFhashDelete(s, fd, page) ==
    IF <<fd, page>> \notin DOMAIN s.hash THEN [rc |-> PFE_HASHNOTFOUND, s |-> s]
    ELSE [rc |-> PFE_OK,
          s |-> [s EXCEPT !.hash = [k \in (DOMAIN @) \ {<<fd, page>>} |-> @[k]]]]

PFbufInsertFree(s, bpage) == [s EXCEPT !.free = <<bpage>> \o @]

PFbufLinkHead(s, bpage) == [s EXCEPT !.used = <<bpage>> \o @]

(* A PFbufUnlink that leaves the list as it is. *)
UnlinkNothing(s, bpage) == s

PFbufUnlink(s, bpage) == [s EXCEPT !.used = SelectSeq(@, LAMBDA b : b # bpage)]

SetMin(S) == CHOOSE x \in S : \A y \in S : x <= y
SetMax(S) == CHOOSE x \in S : \A y \in S : y <= x

(* A victim scan that does not look at the fixed flag. *)
AllOnUsed(s) == 1..Len(s.used)

(* The positions in the used list of the frames that are not fixed. *)
Unfixed(s) == {i \in 1..Len(s.used) : ~s.frames[s.used[i]].fixed}

(* Victim scans that do not look at current_strategy. *)
VictimFromHead(s, strategy) ==
    IF Unfixed(s) = {} THEN NULL ELSE s.used[SetMin(Unfixed(s))]

VictimFromTail(s, strategy) ==
    IF Unfixed(s) = {} THEN NULL ELSE s.used[SetMax(Unfixed(s))]

(* The victim: under LRU the first unfixed frame from PFlastbpage backwards,
   under MRU the first from PFfirstbpage forwards; NULL if all are fixed. *)
ChooseVictim(s, strategy) ==
    IF Unfixed(s) = {} THEN NULL
    ELSE IF strategy = "REPLACE_LRU" THEN s.used[SetMax(Unfixed(s))]
    ELSE s.used[SetMin(Unfixed(s))]

(* PFbufInternalAlloc.  Result: rc, the pool, *bpage and the events. *)
AllocFromFree(s) ==
    [rc |-> PFE_OK,
     s |-> PFbufLinkHead([s EXCEPT !.free = Tail(@)], Head(s.free)),
     bpage |-> Head(s.free), ev |-> <<>>]

AllocNew(s, fault) ==
    IF fault.kind = "malloc"
    THEN [rc |-> PFE_NOMEM, s |-> s, bpage |-> NULL, ev |-> <<>>]
    ELSE [rc |-> PFE_OK,
          s |-> PFbufLinkHead([s EXCEPT !.frames = Append(@, Uninit)],
                              Len(s.frames) + 1),
          bpage |-> Len(s.frames) + 1, ev |-> <<>>]

(* After PFhashDelete of the victim: PFbufUnlink, and PFbufLinkHead at the
   end of PFbufInternalAlloc. *)
VictimUnhashed(h, tbpage, fd, page, ev) ==
    IF h.rc # PFE_OK
    THEN [rc |-> h.rc, s |-> h.s, bpage |-> NULL,
          ev |-> Append(ev, Evt("hashdel", fd, page, h.rc))]
    ELSE [rc |-> PFE_OK,
          s |-> PFbufLinkHead(PFbufUnlink(h.s, tbpage), tbpage),
          bpage |-> tbpage,
          ev |-> ev \o <<Evt("hashdel", fd, page, PFE_OK),
                         Evt("unlink", fd, page, tbpage)>>]

(* stat_physical_writes++, tbpage->dirty = FALSE, PFhashDelete. *)
VictimWritten(s, tbpage, ev) ==
    VictimUnhashed(
        PFhashDelete([s EXCEPT !.frames[tbpage].dirty = FALSE],
                     s.frames[tbpage].fd, s.frames[tbpage].page),
        tbpage, s.frames[tbpage].fd, s.frames[tbpage].page,
        Append(ev, Stat("physical_writes")))

(* if (tbpage == NULL) ...; write out the dirty page. *)
WriteVictim(s, tbpage, fault) ==
    IF tbpage = NULL
    THEN [rc |-> PFE_NOBUF, s |-> s, bpage |-> NULL, ev |-> <<>>]
    ELSE IF /\ s.frames[tbpage].dirty
            /\ PFwritefcn(fault, s.frames[tbpage].fd, s.frames[tbpage].page) # PFE_OK
    THEN [rc |-> PFwritefcn(fault, s.frames[tbpage].fd, s.frames[tbpage].page),
          s |-> s, bpage |-> NULL,
          ev |-> <<Evt("write", s.frames[tbpage].fd, s.frames[tbpage].page,
                       fault.err)>>]
    ELSE VictimWritten(s, tbpage,
             IF s.frames[tbpage].dirty
             THEN <<Evt("write", s.frames[tbpage].fd, s.frames[tbpage].page, PFE_OK)>>
             ELSE <<>>)

(* A PFbufInternalAlloc that knows no limit on the number of frames. *)
AllocBeyondLimit(s, strategy, fault) ==
    IF s.free # <<>> THEN AllocFromFree(s) ELSE AllocNew(s, fault)

PFbufInternalAlloc(s, strategy, fault) ==
    IF s.free # <<>> THEN AllocFromFree(s)
    ELSE IF Len(s.frames) < PF_MAX_BUFS THEN AllocNew(s, fault)
    ELSE WriteVictim(s, ChooseVictim(s, strategy), fault)

(* A release to the free list that forgets PFbufUnlink. *)
FreeStillLinked(s, bpage) == PFbufInsertFree(s, bpage)

(* PFbufUnlink(bpage); PFbufInsertFree(bpage): the error exits of PFbufGet and
   PFbufAlloc, and the release of a frame by PFbufReleaseFile. *)
GiveBack(s, bpage) == PFbufInsertFree(PFbufUnlink(s, bpage), bpage)

(* PFbufGet.  Result: rc, the pool, the events, and the frame *fpage points
   into (NULL for none). *)
GetBound(s, bpage, fd, pagenum, ev) ==
    [rc |-> PFE_OK,
     s |-> [s EXCEPT !.frames[bpage] =
                [fd |-> fd, page |-> pagenum, fixed |-> TRUE, dirty |-> FALSE]],
     bpage |-> bpage,
     ev |-> Append(ev, Evt("bind", fd, pagenum, bpage))]

GetHashed(h, bpage, fd, pagenum, ev) ==
    IF h.rc # PFE_OK
    THEN [rc |-> h.rc, s |-> GiveBack(h.s, bpage), bpage |-> NULL,
          ev |-> ev \o <<Evt("hashins", fd, pagenum, h.rc),
                         Evt("free", fd, pagenum, bpage)>>]
    ELSE GetBound(h.s, bpage, fd, pagenum,
                  Append(ev, Evt("hashins", fd, pagenum, PFE_OK)))

GetRead(a, fd, pagenum, fault, ev) ==
    IF a.rc # PFE_OK
    THEN [rc |-> a.rc, s |-> a.s, bpage |-> NULL, ev |-> ev \o a.ev]
    ELSE IF PFreadfcn(fault) # PFE_OK
    THEN [rc |-> PFreadfcn(fault), s |-> GiveBack(a.s, a.bpage), bpage |-> NULL,
          ev |-> ev \o a.ev \o <<Evt("read", fd, pagenum, fault.err),
                                 Evt("free", fd, pagenum, a.bpage)>>]
    ELSE GetHashed(PFhashInsert(a.s, fd, pagenum, a.bpage, fault.kind # "hash"),
                   a.bpage, fd, pagenum,
                   ev \o a.ev \o <<Evt("read", fd, pagenum, PFE_OK),
                                   Stat("physical_reads")>>)

(* A PFbufGet that hands out a page whether or not it is fixed. *)
FixedAgain(s, bpage) ==
    [rc |-> PFE_OK, s |-> [s EXCEPT !.frames[bpage].fixed = TRUE],
     bpage |-> bpage,
     ev |-> <<Stat("logical_reads"), Stat("buffer_hits")>>]

(* A PFbufGet that counts a hit only when it hands the page out. *)
HitUncounted(s, bpage) ==
    IF s.frames[bpage].fixed
    THEN [rc |-> PFE_PAGEFIXED, s |-> s, bpage |-> bpage,
          ev |-> <<Stat("logical_reads")>>]
    ELSE [rc |-> PFE_OK, s |-> [s EXCEPT !.frames[bpage].fixed = TRUE],
          bpage |-> bpage,
          ev |-> <<Stat("logical_reads"), Stat("buffer_hits")>>]

GetFound(s, bpage) ==
    IF s.frames[bpage].fixed
    THEN [rc |-> PFE_PAGEFIXED, s |-> s, bpage |-> bpage,
          ev |-> <<Stat("logical_reads"), Stat("buffer_hits")>>]
    ELSE [rc |-> PFE_OK, s |-> [s EXCEPT !.frames[bpage].fixed = TRUE],
          bpage |-> bpage,
          ev |-> <<Stat("logical_reads"), Stat("buffer_hits")>>]

PFbufGet(s, strategy, fd, pagenum, fault) ==
    IF PFhashFind(s, fd, pagenum) = NULL
    THEN GetRead(PFbufInternalAlloc(s, strategy, fault), fd, pagenum, fault,
                 <<Stat("logical_reads"), Stat("buffer_misses")>>)
    ELSE GetFound(s, PFhashFind(s, fd, pagenum))

(* An unfix that stores its dirty argument whatever the flag was. *)
DirtyOverwritten(old, dirty) == dirty

(* An unfix that never sets the dirty flag. *)
NeverDirty(old, dirty) == old

(* if (dirty) bpage->dirty = TRUE: the flag is left as it was otherwise. *)
MarkDirty(old, dirty) == dirty \/ old

(* An unfix that reports success and leaves the page fixed. *)
StaysFixed(s, bpage, dirty, ev) ==
    IF ~s.frames[bpage].fixed
    THEN [rc |-> PFE_PAGEUNFIXED, s |-> s, ev |-> ev]
    ELSE [rc |-> PFE_OK,
          s |-> PFbufLinkHead(
                    PFbufUnlink(
                        [s EXCEPT !.frames[bpage].dirty = MarkDirty(@, dirty)],
                        bpage),
                    bpage),
          ev |-> ev]

(* PFbufUnfix. *)
UnfixFound(s, bpage, dirty, ev) ==
    IF ~s.frames[bpage].fixed
    THEN [rc |-> PFE_PAGEUNFIXED, s |-> s, ev |-> ev]
    ELSE [rc |-> PFE_OK,
          s |-> PFbufLinkHead(
                    PFbufUnlink(
                        [s EXCEPT !.frames[bpage].dirty = MarkDirty(@, dirty),
                                  !.frames[bpage].fixed = FALSE],
                        bpage),
                    bpage),
          ev |-> ev]

PFbufUnfix(s, fd, pagenum, dirty) ==
    IF PFhashFind(s, fd, pagenum) = NULL
    THEN [rc |-> PFE_PAGENOTINBUF, s |-> s,
          ev |-> IF dirty THEN <<Stat("logical_writes")>> ELSE <<>>]
    ELSE UnfixFound(s, PFhashFind(s, fd, pagenum), dirty,
                    IF dirty THEN <<Stat("logical_writes")>> ELSE <<>>)

(* PFbufAlloc. *)
AllocHashed(h, bpage, fd, pagenum, ev) ==
    IF h.rc # PFE_OK
    THEN [rc |-> h.rc, s |-> GiveBack(h.s, bpage), bpage |-> NULL,
          ev |-> ev \o <<Evt("hashins", fd, pagenum, h.rc),
                         Evt("free", fd, pagenum, bpage)>>]
    ELSE GetBound(h.s, bpage, fd, pagenum,
                  Append(ev, Evt("hashins", fd, pagenum, PFE_OK)))

AllocGot(a, fd, pagenum, fault) ==
    IF a.rc # PFE_OK
    THEN [rc |-> a.rc, s |-> a.s, bpage |-> NULL, ev |-> a.ev]
    ELSE AllocHashed(PFhashInsert(a.s, fd, pagenum, a.bpage, fault.kind # "hash"),
                     a.bpage, fd, pagenum, a.ev)

PFbufAlloc(s, strategy, fd, pagenum, fault) ==
    IF PFhashFind(s, fd, pagenum) # NULL
    THEN [rc |-> PFE_PAGEINBUF, s |-> s, bpage |-> NULL, ev |-> <<>>]
    ELSE AllocGot(PFbufInternalAlloc(s, strategy, fault), fd, pagenum, fault)

(* A release that takes no frame for fixed. *)
NeverBlocked(s, bpage) == FALSE

(* if (bpage->fixed) return PFE_PAGEFIXED. *)
ReleaseBlocked(s, bpage) == s.frames[bpage].fixed

(* PFbufReleaseFile: the scan of the used list; todo is what of the list, as
   it was when the call began, is still to be visited. *)
RECURSIVE ReleaseLoop(_, _, _, _, _)
RECURSIVE ReleaseFrame(_, _, _, _, _, _)
RECURSIVE ReleaseUnhashed(_, _, _, _, _, _)
ReleaseLoop(s, fd, todo, fault, ev) ==
    IF todo = <<>> THEN [rc |-> PFE_OK, s |-> s, ev |-> ev]
    ELSE ReleaseFrame(s, fd, Head(todo), Tail(todo), fault, ev)

ReleaseFrame(s, fd, bpage, rest, fault, ev) ==
    IF s.frames[bpage].fd # fd THEN ReleaseLoop(s, fd, rest, fault, ev)
    ELSE IF ReleaseBlocked(s, bpage)
    THEN [rc |-> PFE_PAGEFIXED, s |-> s, ev |-> ev]
    ELSE IF /\ s.frames[bpage].dirty
            /\ PFwritefcn(fault, fd, s.frames[bpage].page) # PFE_OK
    THEN [rc |-> PFwritefcn(fault, fd, s.frames[bpage].page), s |-> s,
          ev |-> Append(ev, Evt("write", fd, s.frames[bpage].page, fault.err))]
    ELSE ReleaseUnhashed(
             PFhashDelete([s EXCEPT !.frames[bpage].dirty = FALSE],
                          fd, s.frames[bpage].page),
             fd, bpage, rest, fault,
             IF s.frames[bpage].dirty
             THEN ev \o <<Evt("write", fd, s.frames[bpage].page, PFE_OK),
                          Stat("physical_writes")>>
             ELSE ev)

ReleaseUnhashed(h, fd, bpage, rest, fault, ev) ==
    IF h.rc # PFE_OK
    THEN [rc |-> EXIT_1, s |-> h.s,
          ev |-> Append(ev, Evt("hashdel", fd, h.s.frames[bpage].page, h.rc))]
    ELSE ReleaseLoop(GiveBack(h.s, bpage), fd, rest, fault,
                     ev \o <<Evt("hashdel", fd, h.s.frames[bpage].page, PFE_OK),
                             Evt("unlink", fd, h.s.frames[bpage].page, bpage),
                             Evt("free", fd, h.s.frames[bpage].page, bpage)>>)

PFbufReleaseFile(s, fd, fault) == ReleaseLoop(s, fd, s.used, fault, <<>>)

(* PFbufUsed. *)
UsedFound(s, bpage) ==
    IF ~s.frames[bpage].fixed
    THEN [rc |-> PFE_PAGEUNFIXED, s |-> s, ev |-> <<>>]
    ELSE [rc |-> PFE_OK,
          s |-> PFbufLinkHead(
                    PFbufUnlink([s EXCEPT !.frames[bpage].dirty = TRUE], bpage),
                    bpage),
          ev |-> <<>>]

PFbufUsed(s, fd, pagenum) ==
    IF PFhashFind(s, fd, pagenum) = NULL
    THEN [rc |-> PFE_PAGENOTINBUF, s |-> s, ev |-> <<>>]
    ELSE UsedFound(s, PFhashFind(s, fd, pagenum))

(* The pages a call wrote out: the write callback returned PFE_OK. *)
Written(ev) ==
    {<<ev[i][2], ev[i][3]>> : i \in {j \in 1..Len(ev) : ev[j][1] = "write"
                                                        /\ ev[j][4] = PFE_OK}}

----------------------------------------------------------------------------
(* The bulk loader: method3_bulk_load of test_objective3.c.  A roll number
   is modelled by its rank under strcmp, a StudentEntry by the pair
   <<roll_no, recId>>, and a page by its fields. *)

ROLL_NO_LENGTH == 20
PF_PAGE_SIZE == 1020
SZ_char == 1
SZ_short == 2
SZ_int == 4

LEAF_HEADER_SIZE == SZ_char + SZ_int + 4 * SZ_short
LEAF_ENTRY_SIZE == ROLL_NO_LENGTH + SZ_int
max_entries_per_leaf == (PF_PAGE_SIZE - LEAF_HEADER_SIZE) \div LEAF_ENTRY_SIZE

(* (int)(max_entries_per_leaf * 0.90). *)
fill_factor == (max_entries_per_leaf * 90) \div 100

INT_HEADER_SIZE == SZ_char + 3 * SZ_short
INT_ENTRY_SIZE == ROLL_NO_LENGTH + SZ_int
max_entries_per_internal ==
    (PF_PAGE_SIZE - INT_HEADER_SIZE - SZ_int) \div INT_ENTRY_SIZE

(* strcmp(ea->roll_no, eb->roll_no) < 0. *)
compare_entries(a, b) == a[1] < b[1]

qsort(entries) == SortSeq(entries, compare_entries)

(* The loop that computes tree_height. *)
RECURSIVE TreeHeight(_, _)
TreeHeight(nodes_at_level, tree_height) ==
    IF nodes_at_level > 1
    THEN TreeHeight((nodes_at_level + max_entries_per_internal)
                        \div (max_entries_per_internal + 1),
                    tree_height + 1)
    ELSE tree_height

(* A page as PF_AllocPage hands it out: zero-filled. *)
ZeroPage ==
    [type |-> "", next_leaf |-> 0, attr_len |-> 0, num_keys |-> 0,
     max_keys |-> 0, first_child |-> 0, entries |-> <<>>]

(* The pool of buf.c with no frame malloc'ed yet. *)
NoPool == [frames |-> <<>>, used |-> <<>>, free |-> <<>>, hash |-> <<>>]

(* The pool after n pages of file fd were allocated and unfixed dirty, one
   after the other. *)
RECURSIVE PoolAfter(_, _, _)
PoolAfter(s, fd, n) ==
    IF n = 0 THEN s
    ELSE PFbufUnfix(PFbufAlloc(PoolAfter(s, fd, n - 1), "REPLACE_LRU", fd, n - 1,
                               NoFault).s,
                    fd, n - 1, TRUE).s

(* The pool as an earlier file that filled it and was closed has left it:
   every frame on the free list. *)
UsedPool == PFbufReleaseFile(PoolAfter(NoPool, 0, PF_MAX_BUFS), 0, NoFault).s

(* The PF layer's view of the index file: fd is its descriptor, page p is
   pages[p + 1], free is the chain of disposed pages, pool is the buffer pool
   of buf.c its pages go through, written counts the writes of each page by
   the pool's write callback; exists tells whether the file is on disk and
   root is the root page number its index header records. *)
NoFile ==
    [open |-> FALSE, fd |-> 0 - 1, num_pages |-> 0, free |-> <<>>,
     pages |-> <<>>, pool |-> NoPool, written |-> <<>>, exists |-> FALSE,
     root |-> 0 - 1]

PF_OpenFile(f, err) ==
    IF err # PFE_OK THEN [rc |-> err, f |-> f]
    ELSE [rc |-> 0, f |-> [f EXCEPT !.open = TRUE, !.fd = 0]]

(* One more write of each page of S. *)
CountWrites(written, S) ==
    [p \in (DOMAIN written) \cup S |->
        (IF p \in DOMAIN written THEN written[p] ELSE 0)
        + (IF p \in S THEN 1 ELSE 0)]

(* The file after a call r of buf.c on its pool: the pool as the call left
   it, and one more write of each page of the file the call wrote out. *)
Pooled(f, r) ==
    [f EXCEPT !.pool = r.s,
              !.written = CountWrites(@, {k[2] : k \in {x \in Written(r.ev) :
                                                          x[1] = f.fd}})]

(* The page number alloc_page hands out: the head of the free chain, else
   the first page beyond the end of the file. *)
NextPage(f) == IF f.free # <<>> THEN Head(f.free) ELSE f.num_pages

(* The file with that page taken: zero-filled. *)
Extended(f) ==
    IF f.free # <<>>
    THEN [f EXCEPT !.free = Tail(@), !.pages[Head(f.free) + 1] = ZeroPage]
    ELSE [f EXCEPT !.num_pages = @ + 1, !.pages = Append(@, ZeroPage)]

PageBuffered(f, pageNum, a) ==
    IF a.rc # PFE_OK
    THEN [rc |-> a.rc, f |-> Pooled(f, a), pageNum |-> Indet]
    ELSE [rc |-> PFE_OK, f |-> Pooled(Extended(f), a), pageNum |-> pageNum]

(* alloc_page: reuses the head of the free chain, else extends the file by
   one page, and takes a frame for the page from the pool with PFbufAlloc
   (under the default strategy, which the loader never changes); the page
   is pinned and zero-filled.  fault is what the environment does to the
   PFbufAlloc. *)
PF_AllocPage(f, fault) ==
    PageBuffered(f, NextPage(f),
                 PFbufAlloc(f.pool, "REPLACE_LRU", f.fd, NextPage(f), fault))

PageUnfixed(f, u) == [rc |-> u.rc, f |-> Pooled(f, u)]

(* unpin: PFbufUnfix of the page, which must be pinned; dirty marks it for
   writing.  err is an error of the PF layer itself. *)
PF_UnfixPage(f, pageNum, dirty, err) ==
    IF err # PFE_OK THEN [rc |-> err, f |-> f]
    ELSE PageUnfixed(f, PFbufUnfix(f.pool, f.fd, pageNum, dirty))

FileReleased(f, r) ==
    IF r.rc # PFE_OK THEN [rc |-> r.rc, f |-> Pooled(f, r)]
    ELSE [rc |-> PFE_OK, f |-> [Pooled(f, r) EXCEPT !.open = FALSE]]

(* close_file: PFbufReleaseFile fails while a page of the file is pinned,
   else writes the dirty pages and gives the frames back; then the file is
   closed. *)
PF_CloseFile(f) == FileReleased(f, PFbufReleaseFile(f.pool, f.fd, NoFault))

(* method3_bulk_load before it is entered. *)
BlNotStarted ==
    [pc |-> "entry", order |-> "", num_records |-> 0, sorted_entries |-> <<>>,
     num_leaf_pages |-> 0, tree_height |-> 0, leaf_pages |-> <<>>,
     entry_idx |-> 0, i |-> 0, child_pages |-> <<>>, num_children |-> 0,
     parent_pages |-> <<>>, parent_pages_null |-> TRUE,
     num_parent_pages |-> 0, child_idx |-> 0, level |-> 0,
     root_page |-> 0 - 1, ret |-> "none"]

(* return -1.0. *)
Failed(b) == [b EXCEPT !.pc = "failed", !.ret = "error"]

(* child_pages = leaf_pages; num_children = num_leaf_pages; level = 1. *)
LeavesDone(b) ==
    [b EXCEPT !.pc = "level", !.child_pages = b.leaf_pages,
              !.num_children = b.num_leaf_pages, !.level = 1]

(* From the malloc of sorted_entries to the malloc of leaf_pages. *)
Entered(b, entries, num_records) ==
    [b EXCEPT !.num_records = num_records,
              !.sorted_entries = qsort(entries),
              !.num_leaf_pages = (num_records + fill_factor - 1) \div fill_factor,
              !.tree_height =
                  TreeHeight((num_records + fill_factor - 1) \div fill_factor, 1),
              !.leaf_pages = <<>>, !.entry_idx = 0, !.i = 0,
              !.pc = "leaves"]

LeafLoop(b) == IF b.i < b.num_leaf_pages THEN b ELSE LeavesDone(b)

Opened(b, entries, num_records, o) ==
    IF o.rc < 0
    THEN [bl |-> Failed(b), file |-> o.f]
    ELSE [bl |-> LeafLoop(Entered(b, entries, num_records)), file |-> o.f]

(* method3_bulk_load up to the leaf loop; xAM_CreateIndex has left the index
   file f. *)
Enter(b, entries, num_records, order, f, mallocOK, openErr) ==
    IF ~mallocOK
    THEN [bl |-> Failed([b EXCEPT !.order = order, !.num_records = num_records]),
          file |-> NoFile]
    ELSE Opened([b EXCEPT !.order = order], entries, num_records,
                PF_OpenFile(f, openErr))

(* A leaf that is always taken for full. *)
AlwaysFull(entry_idx, num_records) == fill_factor

(* entries_in_page. *)
EntriesInPage(entry_idx, num_records) ==
    IF entry_idx + fill_factor <= num_records
    THEN fill_factor
    ELSE num_records - entry_idx

(* next_leaf_page. *)
NextLeafPage(i, num_leaf_pages, pageNum) ==
    IF i < num_leaf_pages - 1 THEN pageNum + 1 ELSE 0 - 1

(* How often the loop "for (j = 0; j < limit && idx < bound; j++, idx++)"
   runs. *)
LoopCount(limit, idx, bound) == Max(0, Min(limit, bound - idx))

(* The header and the entries written into the buffer of a leaf. *)
LeafPage(sorted_entries, num_records, entry_idx, entries_in_page, next_leaf_page) ==
    [type |-> "L",
     next_leaf |-> next_leaf_page,
     attr_len |-> ToShort(ROLL_NO_LENGTH),
     num_keys |-> ToShort(entries_in_page),
     max_keys |-> ToShort(fill_factor),
     first_child |-> 0,
     entries |-> SubSeq(sorted_entries, entry_idx + 1,
                        entry_idx + LoopCount(entries_in_page, entry_idx,
                                              num_records))]

LeafUnfixed(b, entries_in_page, pageNum, u) ==
    IF u.rc < 0
    THEN [bl |-> Failed([b EXCEPT !.leaf_pages = Append(@, pageNum)]),
          file |-> u.f]
    ELSE [bl |-> LeafLoop([b EXCEPT
                    !.leaf_pages = Append(@, pageNum),
                    !.entry_idx = @ + LoopCount(entries_in_page, b.entry_idx,
                                                b.num_records),
                    !.i = @ + 1]),
          file |-> u.f]

LeafFilled(b, entries_in_page, a, unfixErr) ==
    LeafUnfixed(b, entries_in_page, a.pageNum,
        PF_UnfixPage(
            [a.f EXCEPT !.pages[a.pageNum + 1] =
                LeafPage(b.sorted_entries, b.num_records, b.entry_idx,
                         entries_in_page,
                         NextLeafPage(b.i, b.num_leaf_pages, a.pageNum))],
            a.pageNum, TRUE, unfixErr))

LeafAllocated(b, a, unfixErr) ==
    IF a.rc < 0
    THEN [bl |-> Failed(b), file |-> a.f]
    ELSE LeafFilled(b, EntriesInPage(b.entry_idx, b.num_records), a, unfixErr)

(* One turn of the leaf loop. *)
BuildLeaf(b, f, allocErr, unfixErr) ==
    LeafAllocated(b, PF_AllocPage(f, allocErr), unfixErr)

(* The head of the while loop over the levels. *)
LevelHead(b) ==
    IF b.num_children > 1
    THEN [b EXCEPT !.num_parent_pages =
                       (b.num_children + max_entries_per_internal)
                           \div (max_entries_per_internal + 1),
                   !.parent_pages = <<>>, !.parent_pages_null = FALSE,
                   !.child_idx = 0, !.i = 0, !.pc = "internal"]
    ELSE [b EXCEPT !.pc = "root"]

(* children_in_node. *)
ChildrenInNode(child_idx, num_children) ==
    IF child_idx + max_entries_per_internal + 1 <= num_children
    THEN max_entries_per_internal + 1
    ELSE num_children - child_idx

(* separator_key for the child at child_idx; the array is not written when
   sep_entry_idx is not below num_records. *)
SeparatorKey(sorted_entries, num_records, child_idx, garbage) ==
    IF child_idx * fill_factor < num_records
    THEN sorted_entries[child_idx * fill_factor + 1][1]
    ELSE garbage

(* The header, the first child and the (separator, child) pairs written into
   the buffer of an internal node; child_idx is the index of its first
   child. *)
InternalPage(b, child_idx, num_keys, garbage) ==
    [type |-> "I",
     next_leaf |-> 0,
     attr_len |-> ToShort(ROLL_NO_LENGTH),
     num_keys |-> num_keys,
     max_keys |-> ToShort(max_entries_per_internal),
     first_child |-> b.child_pages[child_idx + 1],
     entries |->
        [j \in 1..LoopCount(num_keys, child_idx + 1, b.num_children) |->
            <<SeparatorKey(b.sorted_entries, b.num_records, child_idx + j, garbage),
              b.child_pages[child_idx + j + 1]>>]]

(* The end of the for loop over the parents: child_pages = parent_pages;
   num_children = num_parent_pages; level++. *)
InternalLoop(b) ==
    IF b.i < b.num_parent_pages THEN b
    ELSE [b EXCEPT !.child_pages = b.parent_pages,
                   !.num_children = b.num_parent_pages,
                   !.level = @ + 1, !.pc = "level"]

InternalUnfixed(b, num_keys, pageNum, u) ==
    IF u.rc < 0
    THEN [bl |-> Failed([b EXCEPT !.parent_pages = Append(@, pageNum)]),
          file |-> u.f]
    ELSE [bl |-> InternalLoop([b EXCEPT
                    !.parent_pages = Append(@, pageNum),
                    !.child_idx = @ + 1 + LoopCount(num_keys, b.child_idx + 1,
                                                    b.num_children),
                    !.i = @ + 1]),
          file |-> u.f]

InternalFilled(b, num_keys, a, unfixErr, garbage) ==
    InternalUnfixed(b, num_keys, a.pageNum,
        PF_UnfixPage(
            [a.f EXCEPT !.pages[a.pageNum + 1] =
                InternalPage(b, b.child_idx, num_keys, garbage)],
            a.pageNum, TRUE, unfixErr))

InternalAllocated(b, a, unfixErr, garbage) ==
    IF a.rc < 0
    THEN [bl |-> Failed(b), file |-> a.f]
    ELSE InternalFilled(b,
             ToShort(ChildrenInNode(b.child_idx, b.num_children) - 1),
             a, unfixErr, garbage)

(* One turn of the for loop over the parents of a level. *)
BuildInternal(b, f, allocErr, unfixErr, garbage) ==
    InternalAllocated(b, PF_AllocPage(f, allocErr), unfixErr, garbage)

(* root_page = parent_pages[0] and the rest of the function; parent_pages is
   NULL when no level was built, and the read then yields garbage if it
   yields at all. *)
Finish(b, f, garbage) ==
    [bl |-> [b EXCEPT !.root_page = IF b.parent_pages_null THEN garbage
                                    ELSE b.parent_pages[1],
                      !.pc = "done", !.ret = "ok"],
     file |-> PF_CloseFile(f).f,
     ub |-> b.parent_pages_null]

----------------------------------------------------------------------------
(* SpecSP: one page buffer, initialised by SP_InitPage, under any sequence
   of SP_InsertRecord, SP_DeleteRecord, SP_GetRecord and SP_CompactPage, and
   of scans of the page.  SP_CompactPage rebuilds the directory without its
   tombstones, so spDead is empty after it. *)

(* Bounds of SpecSP. *)
MaxSpOps == 5           \* calls that may change the page
MaxSlotArg == 3         \* largest slot number passed to delete / get
StackFills == {0, 170}  \* what the caller's buffer holds before SP_InitPage

(* Record lengths offered to SP_InsertRecord: empty, small, half a page, the
   largest that fits a fresh page and one byte more. *)
RecLens == {0, 60, 100, 2000,
            SP_PAGE_SIZE - SP_HEADER_SIZE - SP_SLOT_SIZE,
            SP_PAGE_SIZE - SP_HEADER_SIZE - SP_SLOT_SIZE + 1}

(* The record the k-th call inserts: len bytes of one value, a letter in the
   even calls and a byte above 127 in the odd ones. *)
RecBytes(len, k) == Fill(len, 65 + k + 128 * (k % 2))

NoCall == [op |-> "none"]

(* What an out-of-bounds access can lead to: the process goes on with the
   in-bounds part of the access done, or it is killed. *)
AfterUB(ub) == IF ub THEN {"ok", "killed"} ELSE {"ok"}

(* No SP_GetRecord or scan is under way: the caller has its result. *)
SpReturned == spLast.op \notin {"get", "scan"}

SPInsert(len) ==
    /\ spState = "ok" /\ spOps < MaxSpOps /\ SpReturned
    /\ \E r \in {SP_InsertRecord(spPage, RecBytes(len, spOps), len)} :
           /\ spPage' = r.page
           /\ spLast' = [op |-> "insert", rec_len |-> len,
                         record |-> RecBytes(len, spOps), rc |-> r.rc,
                         slot |-> r.slot, ub |-> r.ub]
           /\ spState' \in AfterUB(r.ub)
           /\ spDead' = IF r.rc = SP_OK THEN spDead \ {r.slot} ELSE spDead
           /\ spClean' = (spClean /\ ~r.ub)
    /\ spOps' = spOps + 1

SPDelete(slot_num) ==
    /\ spState = "ok" /\ spOps < MaxSpOps /\ SpReturned
    /\ \E r \in {SP_DeleteRecord(spPage, slot_num)} :
           /\ spPage' = r.page
           /\ spLast' = [op |-> "delete", slot |-> slot_num, rc |-> r.rc,
                         ub |-> r.ub]
           /\ spState' \in AfterUB(r.ub)
           /\ spDead' = IF r.rc = SP_OK /\ slot_num >= 0
                        THEN spDead \cup {slot_num} ELSE spDead
           /\ spClean' = (spClean /\ ~r.ub /\ slot_num >= 0)
    /\ spOps' = spOps + 1

SPGet(slot_num) ==
    /\ spState = "ok" /\ SpReturned
    /\ \E r \in {SP_GetRecord(spPage, slot_num)} :
           /\ spLast' = [op |-> "get", slot |-> slot_num, rc |-> r.rc,
                         rec_len |-> r.rec_len, record |-> r.record,
                         ub |-> r.ub]
           /\ spState' \in AfterUB(r.ub)
    /\ UNCHANGED <<spPage, spOps, spDead, spClean>>

(* A scan of the file that holds the page as its only data page: SP_OpenScan
   and the loop over SP_GetNextRecord. *)
SPScan ==
    /\ spState = "ok" /\ SpReturned
    /\ \E r \in {SpScanLoop(SP_OpenScan(1), <<spPage>>, <<>>)} :
           /\ spLast' = [op |-> "scan", rids |-> r.rids, ub |-> r.ub]
           /\ spState' \in AfterUB(r.ub)
    /\ UNCHANGED <<spPage, spOps, spDead, spClean>>

SPCompact(mallocOK) ==
    /\ spState = "ok" /\ spOps < MaxSpOps /\ SpReturned
    /\ \E r \in {SP_CompactPage(spPage, mallocOK)} :
           /\ spPage' = r.page
           /\ spLast' = [op |-> "compact", rc |-> r.rc, ub |-> r.ub]
           /\ spState' \in AfterUB(r.ub)
           /\ spDead' = IF r.rc = SP_OK THEN {} ELSE spDead
           /\ spClean' = (spClean /\ ~r.ub)
    /\ spOps' = spOps + 1

(* SP_GetRecord or the scan returns: its caller has the result and may call
   again. *)
SPReturn ==
    /\ spState = "ok" /\ ~SpReturned
    /\ spLast' = NoCall
    /\ UNCHANGED <<spPage, spState, spOps, spDead, spClean>>

(* The SpecSF variables while another specification runs. *)
SfIdle ==
    /\ sf = [num_pages |-> 0, num_records |-> 0]
    /\ sfDisk = <<>> /\ sfIssued = {} /\ sfOrder = <<>> /\ sfLive = <<>>
    /\ sfState = "ok" /\ sfLast = NoCall /\ sfOps = <<0, 0>>

(* The counters of buf.c, all zero as the program starts and after
   BUF_ResetStatistics. *)
StatNames ==
    {"logical_reads", "logical_writes", "physical_reads", "physical_writes",
     "buffer_hits", "buffer_misses"}

NoStats == [c \in StatNames |-> 0]

StIdle == bpStat = NoStats /\ bpWrote = 0 /\ bpCalls = 0

BpNoCall ==
    [op |-> "none", fd |-> 0 - 1, page |-> 0 - 1, dirty |-> FALSE, rc |-> PFE_OK,
     ev |-> <<>>, flushed |-> {}]

(* The SpecBP variables while another specification runs: the statics of
   buf.c as the program starts. *)
BpIdle ==
    /\ bp = [frames |-> <<>>, used |-> <<>>, free |-> <<>>, hash |-> <<>>]
    /\ bpStrategy = "REPLACE_LRU"
    /\ bpDirtied = <<>>
    /\ bpLast = BpNoCall
    /\ bpTouched = <<>>
    /\ bpModes = <<>>
    /\ StIdle

(* The SpecSP variables while another specification runs. *)
SpIdle ==
    /\ spPage = <<>> /\ spState = "ok" /\ spLast = NoCall /\ spOps = 0
    /\ spDead = {} /\ spClean = TRUE

(* The SpecBL variables while another specification runs. *)
BlIdle ==
    /\ bl = BlNotStarted /\ blFile = NoFile

InitSP ==
    /\ \E g \in StackFills : spPage = SP_InitPage(Fill(SP_PAGE_SIZE, g))
    /\ spState = "ok"
    /\ spLast = NoCall
    /\ spOps = 0
    /\ spDead = {}
    /\ spClean = TRUE
    /\ SfIdle
    /\ BpIdle
    /\ BlIdle

SPInsertStep == (\E len \in RecLens : SPInsert(len)) /\ UNCHANGED exceptSP
SPDeleteStep == (\E s \in (0 - 1)..MaxSlotArg : SPDelete(s)) /\ UNCHANGED exceptSP
SPGetStep == (\E s \in (0 - 1)..MaxSlotArg : SPGet(s)) /\ UNCHANGED exceptSP
SPCompactStep == (\E ok \in BOOLEAN : SPCompact(ok)) /\ UNCHANGED exceptSP
SPScanStep == SPScan /\ UNCHANGED exceptSP
SPReturnStep == SPReturn /\ UNCHANGED exceptSP

NextSP ==
    \/ SPInsertStep \/ SPDeleteStep \/ SPGetStep \/ SPCompactStep
    \/ SPScanStep \/ SPReturnStep

SpecSP == InitSP /\ [][NextSP]_vars

(* SpecSQ: the page under the calls that change it, without the reads, for
   call sequences of up to MaxSqOps calls. *)
MaxSqOps == 4

SqInsertStep == spOps < MaxSqOps /\ SPInsertStep

SqDeleteStep == spOps < MaxSqOps /\ SPDeleteStep

SqCompactStep == spOps < MaxSqOps /\ SPCompactStep

NextSQ == SqInsertStep \/ SqDeleteStep \/ SqCompactStep

SpecSQ == InitSP /\ [][NextSQ]_vars

----------------------------------------------------------------------------
(* SpecSF: a record file created empty (SF_CreateFile) and opened once
   (SF_OpenFile), under SF_InsertStudent, SF_DeleteStudent, SF_GetStudent and
   the scan loop of test_slotted_page.  Reads, writes and seeks of the file
   succeed. *)

(* Bounds of SpecSF: calls made after the file was loaded. *)
MaxInserts == 2
MaxDeletes == 1

(* Fields of k characters c, cut to what each array holds with its NUL. *)
StudentK(c, k) ==
    [roll_no |-> Fill(Min(SZ_roll_no - 1, k), c),
     name |-> Fill(Min(MAX_NAME_LEN - 1, k), c),
     batch |-> Fill(Min(SZ_batch - 1, k), c),
     degree |-> Fill(Min(SZ_degree - 1, k), c),
     dept |-> Fill(Min(SZ_dept - 1, k), c),
     join_yr |-> 2020,
     categ |-> Fill(Min(SZ_categ - 1, k), c),
     sex |-> Fill(Min(SZ_sex - 1, k), c),
     father_name |-> Fill(Min(MAX_NAME_LEN - 1, k), c),
     birthdate |-> Fill(Min(SZ_birthdate - 1, k), c),
     address |-> Fill(Min(MAX_ADDR_LEN - 1, k), c),
     city |-> Fill(Min(SZ_city - 1, k), c),
     state |-> Fill(Min(SZ_state - 1, k), c),
     pincode |-> Fill(Min(SZ_pincode - 1, k), c)]

(* The students offered to SF_InsertStudent: one with every field full (607
   bytes serialized) and one with fields of up to 70 characters (420). *)
Students == {StudentK(76, MAX_ADDR_LEN - 1), StudentK(77, 70)}

(* The file after the load loop of test_slotted_page has inserted n students
   with every field full: the StudentFile, the data pages, and what the loop
   was told (the RecordIDs returned, the bytes stored under each). *)
LoadedOne(before, r, buffer) ==
    [sf |-> r.sf, disk |-> r.disk, issued |-> before.issued \cup {r.rid},
     order |-> Append(before.order, r.rid),
     live |-> (r.rid :> buffer) @@ before.live]

LoadedNext(before, rec) ==
    LoadedOne(before, SFInsertStudent(before.sf, before.disk, rec, 0),
              serialize_student(rec))

RECURSIVE Loaded(_)
Loaded(n) ==
    IF n = 0
    THEN [sf |-> [num_pages |-> 0, num_records |-> 0], disk |-> <<>>,
          issued |-> {}, order |-> <<>>, live |-> <<>>]
    ELSE LoadedNext(Loaded(n - 1), StudentK(76, MAX_ADDR_LEN - 1))

(* How many students the file holds when the calls under test begin: none, as
   many of the largest as fill one page, or one fewer. *)
Preloads == {0, 5, 6}

InitSF ==
    /\ \E n \in Preloads : \E f \in {Loaded(n)} :
          /\ sf = f.sf /\ sfDisk = f.disk /\ sfIssued = f.issued
          /\ sfOrder = f.order /\ sfLive = f.live
    /\ sfState = "ok"
    /\ sfLast = NoCall
    /\ sfOps = <<0, 0>>
    /\ SpIdle
    /\ BpIdle
    /\ BlIdle

(* f without x in its domain. *)
Without(f, x) == [y \in (DOMAIN f) \ {x} |-> f[y]]

SfInsert(rec, garbage) ==
    /\ sfState = "ok" /\ sfOps[1] < MaxInserts
    /\ \E r \in {SFInsertStudent(sf, sfDisk, rec, garbage)} :
           /\ sf' = r.sf
           /\ sfDisk' = r.disk
           /\ sfIssued' = IF r.rc = SP_OK THEN sfIssued \cup {r.rid} ELSE sfIssued
           /\ sfOrder' = IF r.rc = SP_OK THEN Append(sfOrder, r.rid) ELSE sfOrder
           /\ sfLive' = IF r.rc = SP_OK
                        THEN (r.rid :> serialize_student(rec)) @@ sfLive
                        ELSE sfLive
           /\ sfLast' = [op |-> "insert", rc |-> r.rc, rid |-> r.rid, ub |-> r.ub]
           /\ sfState' \in AfterUB(r.ub)
    /\ sfOps' = <<sfOps[1] + 1, sfOps[2]>>

SfDelete(rid) ==
    /\ sfState = "ok"
    /\ \E r \in {SFDeleteStudent(sf, sfDisk, rid)} :
           /\ sf' = r.sf
           /\ sfDisk' = r.disk
           /\ sfLive' = IF r.rc = SP_OK THEN Without(sfLive, rid) ELSE sfLive
           /\ sfLast' = [op |-> "delete", rc |-> r.rc, rid |-> rid, ub |-> r.ub]
           /\ sfState' \in AfterUB(r.ub)
    /\ sfOps' = <<sfOps[1], sfOps[2] + 1>>
    /\ UNCHANGED <<sfIssued, sfOrder>>

SfGet(rid) ==
    /\ sfState = "ok"
    /\ \E r \in {SFGetStudent(sf, sfDisk, rid)} :
           /\ sfLast' = [op |-> "get", rc |-> r.rc, rid |-> rid,
                         record |-> r.record, ub |-> r.ub]
           /\ sfState' \in AfterUB(r.ub)
    /\ UNCHANGED <<sf, sfDisk, sfIssued, sfOrder, sfLive, sfOps>>

SfScan ==
    /\ sfState = "ok"
    /\ \E r \in {ScanLoop(SFOpenScan(sf), sfDisk, <<>>)} :
           /\ sfLast' = [op |-> "scan", records |-> r.records, ub |-> r.ub]
           /\ sfState' \in AfterUB(r.ub)
    /\ UNCHANGED <<sf, sfDisk, sfIssued, sfOrder, sfLive, sfOps>>

SfInsertStep ==
    /\ \E rec \in Students :
          \E g \in (IF sf.num_pages = 0 THEN StackFills ELSE {0}) : SfInsert(rec, g)
    /\ UNCHANGED exceptSF
SfDeleteStep ==
    /\ sfOps[2] < MaxDeletes
    /\ \E rid \in sfIssued : SfDelete(rid)
    /\ UNCHANGED exceptSF
SfGetStep == (\E rid \in sfIssued : SfGet(rid)) /\ UNCHANGED exceptSF
SfScanStep == SfScan /\ UNCHANGED exceptSF

NextSF == SfInsertStep \/ SfDeleteStep \/ SfGetStep \/ SfScanStep

SpecSF == InitSF /\ [][NextSF]_vars

(* SpecSI: the record file under inserts, gets and scans alone. *)
NextSI == SfInsertStep \/ SfGetStep \/ SfScanStep

SpecSI == InitSF /\ [][NextSI]_vars

(* SpecSD: the record file under inserts and deletes alone, any RecordID that
   was ever returned for one of the slots 0..MaxSdSlot being deleted up to
   MaxSdDeletes times in all.  The caller goes on as long as no call has left
   a buffer: what the file holds after such a call is not defined. *)
MaxSdDeletes == 2
MaxSdSlot == 1

SfInBounds == IF sfLast.op = "none" THEN TRUE ELSE ~sfLast.ub

SdInsertStep == SfInBounds /\ SfInsertStep

SdDeleteStep ==
    /\ SfInBounds /\ sfOps[2] < MaxSdDeletes
    /\ \E rid \in {x \in sfIssued : x[2] <= MaxSdSlot} : SfDelete(rid)
    /\ UNCHANGED exceptSF

NextSD == SdInsertStep \/ SdDeleteStep

SpecSD == InitSF /\ [][NextSD]_vars

----------------------------------------------------------------------------
(* SpecBP: the buffer pool, empty at first, under any sequence of PFbufGet,
   PFbufUnfix, PFbufAlloc, PFbufUsed, PFbufReleaseFile and BUF_SetStrategy,
   with callbacks and mallocs that may fail.  A call is one step, which
   leaves what it did in bpLast; its return to the caller is the next. *)

(* The files and pages the caller names: file 1 has as many pages as the
   pool has frames and file 2 has one, so one page more than the pool holds. *)
BpFds == {1, 2}
BpKeys == {<<1, pg>> : pg \in 0..(PF_MAX_BUFS - 1)} \cup {<<2, 0>>}
BpPages(fd) == {k[2] : k \in {x \in BpKeys : x[1] = fd}}

(* The faults offered to a call that writes at most one page (the victim),
   and to PFbufReleaseFile(fd), which may write several. *)
GetFaults ==
    {NoFault, Fault("malloc", 0 - 1, 0 - 1, PFE_NOMEM),
     Fault("hash", 0 - 1, 0 - 1, PFE_NOMEM),
     Fault("read", 0 - 1, 0 - 1, PFE_INCOMPLETEREAD),
     Fault("write", AnyPage, AnyPage, PFE_INCOMPLETEWRITE)}

AllocFaults ==
    {NoFault, Fault("malloc", 0 - 1, 0 - 1, PFE_NOMEM),
     Fault("hash", 0 - 1, 0 - 1, PFE_NOMEM),
     Fault("write", AnyPage, AnyPage, PFE_INCOMPLETEWRITE)}

ReleaseFaults(fd) ==
    {NoFault} \cup {Fault("write", fd, pg, PFE_INCOMPLETEWRITE) : pg \in BpPages(fd)}

(* bpDirtied maps a page to 1 once a caller marked it dirty; a page leaves it
   when the write callback has written it.  For page 0 of file 1 it also
   keeps what happened since: 2 once the page was fetched again, 3 once it was
   then unfixed with dirty = FALSE. *)
Unwritten(d, ev) == [k \in (DOMAIN d) \ Written(ev) |-> d[k]]

Staged(d, k, from, to) ==
    IF k = <<1, 0>> /\ k \in DOMAIN d /\ d[k] = from THEN (k :> to) @@ d ELSE d

(* What bpDirtied held for the pages a call wrote out. *)
Flushed(d, ev) == {<<k, d[k]>> : k \in (DOMAIN d) \cap Written(ev)}

(* bpTouched after a call on page k that left the pool s: k comes first if
   the call allocated, unfixed or marked it used, and the pages that left the
   hash table are gone. *)
Touched(t, s, k, touch) ==
    (IF touch THEN <<k>> ELSE <<>>)
        \o SelectSeq(t, LAMBDA x : x \in DOMAIN s.hash /\ ~(touch /\ x = k))

InitBP ==
    /\ bp = [frames |-> <<>>, used |-> <<>>, free |-> <<>>, hash |-> <<>>]
    /\ bpStrategy = "REPLACE_LRU"
    /\ bpDirtied = <<>>
    /\ bpLast = BpNoCall
    /\ bpTouched = <<>>
    /\ bpModes = <<>>
    /\ StIdle
    /\ SpIdle
    /\ SfIdle
    /\ BlIdle

(* The process is gone after exit(1). *)
BpRunning == bpLast.rc # EXIT_1

(* No call is under way: the last one has returned to its caller. *)
BpReturned == bpLast = BpNoCall

BpGet(fd, pagenum, fault) ==
    /\ BpReturned
    /\ \E r \in {PFbufGet(bp, bpStrategy, fd, pagenum, fault)} :
          /\ bp' = r.s
          /\ bpDirtied' = IF r.rc = PFE_OK
                          THEN Staged(Unwritten(bpDirtied, r.ev), <<fd, pagenum>>, 1, 2)
                          ELSE Unwritten(bpDirtied, r.ev)
          /\ bpLast' = [op |-> "PFbufGet", fd |-> fd, page |-> pagenum,
                        dirty |-> FALSE, rc |-> r.rc, ev |-> r.ev,
                        flushed |-> Flushed(bpDirtied, r.ev)]
          /\ bpTouched' = Touched(bpTouched, r.s, <<fd, pagenum>>,
                                  r.rc = PFE_OK /\ PFhashFind(bp, fd, pagenum) = NULL)
    /\ UNCHANGED bpStrategy

BpUnfix(fd, pagenum, dirty) ==
    /\ BpReturned
    /\ \E r \in {PFbufUnfix(bp, fd, pagenum, dirty)} :
          /\ bp' = r.s
          /\ bpDirtied' = IF r.rc # PFE_OK THEN bpDirtied
                          ELSE IF dirty THEN (<<fd, pagenum>> :> 1) @@ bpDirtied
                          ELSE Staged(bpDirtied, <<fd, pagenum>>, 2, 3)
          /\ bpLast' = [op |-> "PFbufUnfix", fd |-> fd, page |-> pagenum,
                        dirty |-> dirty, rc |-> r.rc, ev |-> r.ev, flushed |-> {}]
          /\ bpTouched' = Touched(bpTouched, r.s, <<fd, pagenum>>, r.rc = PFE_OK)
    /\ UNCHANGED bpStrategy

BpAlloc(fd, pagenum, fault) ==
    /\ BpReturned
    /\ \E r \in {PFbufAlloc(bp, bpStrategy, fd, pagenum, fault)} :
          /\ bp' = r.s
          /\ bpDirtied' = Unwritten(bpDirtied, r.ev)
          /\ bpLast' = [op |-> "PFbufAlloc", fd |-> fd, page |-> pagenum,
                        dirty |-> FALSE, rc |-> r.rc, ev |-> r.ev,
                        flushed |-> Flushed(bpDirtied, r.ev)]
          /\ bpTouched' = Touched(bpTouched, r.s, <<fd, pagenum>>, r.rc = PFE_OK)
    /\ UNCHANGED bpStrategy

BpUsed(fd, pagenum) ==
    /\ BpReturned
    /\ \E r \in {PFbufUsed(bp, fd, pagenum)} :
          /\ bp' = r.s
          /\ bpDirtied' = IF r.rc = PFE_OK THEN (<<fd, pagenum>> :> 1) @@ bpDirtied
                          ELSE bpDirtied
          /\ bpLast' = [op |-> "PFbufUsed", fd |-> fd, page |-> pagenum,
                        dirty |-> FALSE, rc |-> r.rc, ev |-> r.ev, flushed |-> {}]
          /\ bpTouched' = Touched(bpTouched, r.s, <<fd, pagenum>>, r.rc = PFE_OK)
    /\ UNCHANGED bpStrategy

BpReleaseFile(fd, fault) ==
    /\ BpReturned
    /\ \E r \in {PFbufReleaseFile(bp, fd, fault)} :
          /\ bp' = r.s
          /\ bpDirtied' = Unwritten(bpDirtied, r.ev)
          /\ bpLast' = [op |-> "PFbufReleaseFile", fd |-> fd, page |-> 0 - 1,
                        dirty |-> FALSE, rc |-> r.rc, ev |-> r.ev,
                        flushed |-> Flushed(bpDirtied, r.ev)]
          /\ bpTouched' = Touched(bpTouched, r.s, <<fd, 0 - 1>>, FALSE)
    /\ UNCHANGED bpStrategy

BUF_SetStrategy(strategy) ==
    /\ BpReturned
    /\ bpStrategy' = strategy
    /\ bpLast' = [op |-> "BUF_SetStrategy", fd |-> 0 - 1, page |-> 0 - 1,
                  dirty |-> FALSE, rc |-> PFE_OK, ev |-> <<>>, flushed |-> {}]
    /\ UNCHANGED <<bp, bpDirtied, bpTouched>>

(* The call returns: its caller has the result and may call again. *)
BpReturn ==
    /\ BpRunning /\ ~BpReturned
    /\ bpLast' = BpNoCall
    /\ UNCHANGED <<bp, bpStrategy, bpDirtied, bpTouched>>

(* The faults a call for (fd, pagenum) can meet: a call that finds the page
   in the pool returns before it allocates, reads or writes anything. *)
FaultsAt(fd, pagenum, faults) ==
    IF PFhashFind(bp, fd, pagenum) = NULL THEN faults ELSE {NoFault}

BpGetStep ==
    /\ BpReturned
    /\ \E k \in BpKeys :
          \E fault \in FaultsAt(k[1], k[2], GetFaults) : BpGet(k[1], k[2], fault)
    /\ UNCHANGED exceptBP
BpUnfixStep ==
    /\ BpReturned
    /\ \E k \in BpKeys, dirty \in BOOLEAN : BpUnfix(k[1], k[2], dirty)
    /\ UNCHANGED exceptBP
BpAllocStep ==
    /\ BpReturned
    /\ \E k \in BpKeys :
          \E fault \in FaultsAt(k[1], k[2], AllocFaults) : BpAlloc(k[1], k[2], fault)
    /\ UNCHANGED exceptBP
BpUsedStep ==
    /\ BpReturned
    /\ \E k \in BpKeys : BpUsed(k[1], k[2])
    /\ UNCHANGED exceptBP
BpReleaseFileStep ==
    /\ BpReturned
    /\ \E fd \in BpFds : \E fault \in ReleaseFaults(fd) : BpReleaseFile(fd, fault)
    /\ UNCHANGED exceptBP
BpSetStrategyStep ==
    /\ BpReturned
    /\ \E st \in {"REPLACE_LRU", "REPLACE_MRU"} : BUF_SetStrategy(st)
    /\ UNCHANGED exceptBP
BpReturnStep == BpReturn /\ UNCHANGED exceptBP

NextBP ==
    \/ BpGetStep \/ BpUnfixStep \/ BpAllocStep \/ BpUsedStep
    \/ BpReleaseFileStep \/ BpSetStrategyStep \/ BpReturnStep

SpecBP == InitBP /\ [][NextBP]_vars

----------------------------------------------------------------------------
(* SpecBS: the buffer pool with its statistics counters, for a caller that
   works on one file with one page more than the pool holds, makes a few
   calls and may reset the counters between any two of them.  Every call is
   the SpecBP action of the same name; the step adds what the call counted
   to the counters. *)

(* Bound of SpecBS: the calls the caller makes. *)
MaxStCalls == 5

StKeys == {<<1, pg>> : pg \in 0..PF_MAX_BUFS}

StFaults ==
    {NoFault, Fault("read", 0 - 1, 0 - 1, PFE_INCOMPLETEREAD),
     Fault("write", AnyPage, AnyPage, PFE_INCOMPLETEWRITE)}

(* The number of events of one kind among those of a call. *)
CountEv(ev, kind) == Cardinality({i \in 1..Len(ev) : ev[i][1] = kind})

(* The counters after a call that did ev: each stat_x++ adds one. *)
Counted(stat, ev) == [c \in StatNames |-> stat[c] + CountEv(ev, c)]

(* The write callbacks of a call that returned PFE_OK. *)
Wrote(ev) ==
    Cardinality({i \in 1..Len(ev) : ev[i][1] = "write" /\ ev[i][4] = PFE_OK})

StRoom == bpCalls < MaxStCalls

(* The counters follow the call made in this step. *)
StCount ==
    /\ StRoom
    /\ bpStat' = Counted(bpStat, bpLast'.ev)
    /\ bpWrote' = bpWrote + Wrote(bpLast'.ev)
    /\ bpCalls' = bpCalls + 1

BUF_ResetStatistics ==
    /\ BpReturned /\ StRoom
    /\ bpStat' = NoStats
    /\ bpWrote' = 0
    /\ bpCalls' = bpCalls + 1
    /\ bpLast' = [op |-> "BUF_ResetStatistics", fd |-> 0 - 1, page |-> 0 - 1,
                  dirty |-> FALSE, rc |-> PFE_OK, ev |-> <<>>, flushed |-> {}]
    /\ UNCHANGED <<bp, bpStrategy, bpDirtied, bpTouched>>

StGetStep ==
    /\ \E k \in StKeys, fault \in StFaults : BpGet(k[1], k[2], fault)
    /\ StCount
    /\ UNCHANGED exceptBS
StUnfixStep ==
    /\ \E k \in StKeys, dirty \in BOOLEAN : BpUnfix(k[1], k[2], dirty)
    /\ StCount
    /\ UNCHANGED exceptBS
StAllocStep ==
    /\ \E k \in StKeys, fault \in StFaults : BpAlloc(k[1], k[2], fault)
    /\ StCount
    /\ UNCHANGED exceptBS
StUsedStep ==
    /\ \E k \in StKeys : BpUsed(k[1], k[2])
    /\ StCount
    /\ UNCHANGED exceptBS
StReleaseFileStep ==
    /\ \E fault \in StFaults : BpReleaseFile(1, fault)
    /\ StCount
    /\ UNCHANGED exceptBS
StResetStep == BUF_ResetStatistics /\ UNCHANGED exceptBS
StReturnStep == BpReturn /\ UNCHANGED <<stVars, exceptBS>>

NextBS ==
    \/ StGetStep \/ StUnfixStep \/ StAllocStep \/ StUsedStep
    \/ StReleaseFileStep \/ StResetStep \/ StReturnStep

SpecBS == InitBP /\ [][NextBS]_vars

----------------------------------------------------------------------------
(* SpecBM: the pool under gets, allocations and unfixes with dirty = TRUE of
   the pages of one file, under PFbufReleaseFile of that file and under
   BUF_SetStrategy, without faults.  bpModes keeps, for each
   page in the pool, the mode in force when it was pinned and, once it is
   unpinned, whether it was pinned under LRU and unpinned under MRU; the
   entry of an evicted page stays until the evicting call has returned. *)

BmKeys == {<<1, pg>> : pg \in 0..PF_MAX_BUFS}

BmPinned(k) ==
    bpModes' = IF bpLast'.rc = PFE_OK THEN (k :> bpStrategy) @@ bpModes ELSE bpModes

BmUnpinned(k) ==
    bpModes' = IF bpLast'.rc # PFE_OK THEN bpModes
               ELSE IF bpModes[k] = "REPLACE_LRU" /\ bpStrategy = "REPLACE_MRU"
               THEN (k :> "lru_mru") @@ bpModes
               ELSE (k :> "other") @@ bpModes

BmGetStep ==
    /\ BpReturned
    /\ \E k \in BmKeys : BpGet(k[1], k[2], NoFault) /\ BmPinned(k)
    /\ UNCHANGED exceptBM
BmAllocStep ==
    /\ BpReturned
    /\ \E k \in BmKeys : BpAlloc(k[1], k[2], NoFault) /\ BmPinned(k)
    /\ UNCHANGED exceptBM
BmUnfixStep ==
    /\ BpReturned
    /\ \E k \in BmKeys : BpUnfix(k[1], k[2], TRUE) /\ BmUnpinned(k)
    /\ UNCHANGED exceptBM
BmReleaseFileStep ==
    /\ BpReturned
    /\ BpReleaseFile(1, NoFault)
    /\ UNCHANGED <<pmVars, exceptBM>>
BmSetStrategyStep ==
    /\ BpReturned
    /\ \E st \in {"REPLACE_LRU", "REPLACE_MRU"} : BUF_SetStrategy(st)
    /\ UNCHANGED <<pmVars, exceptBM>>
BmReturnStep ==
    /\ BpReturn
    /\ bpModes' = [k \in (DOMAIN bpModes) \cap (DOMAIN bp.hash) |-> bpModes[k]]
    /\ UNCHANGED exceptBM

NextBM ==
    \/ BmGetStep \/ BmAllocStep \/ BmUnfixStep \/ BmReleaseFileStep
    \/ BmSetStrategyStep \/ BmReturnStep

SpecBM == InitBP /\ [][NextBM]_vars

----------------------------------------------------------------------------
(* SpecBL: one call of method3_bulk_load, one loop turn per step, on the
   index file that xAM_CreateIndex left. *)

(* Bounds of SpecBL: one record more than fills a leaf, and one record more
   than fills the leaves of one full internal node. *)
FewRecords == 37
ManyRecords == 1549

BlSizes == {0, 1, FewRecords - 1, FewRecords, ManyRecords}

(* The order of the roll numbers in entries[]. *)
BlOrders == {"ascending", "descending"}

(* entries[] as load_student_data fills it: distinct roll numbers, recId the
   position in the file. *)
Entries(n, order) ==
    [k \in 1..n |-> <<IF order = "ascending" THEN k ELSE n + 1 - k, k - 1>>]

(* The index file at PF_OpenFile, as xAM_CreateIndex has left it on disk:
   the page of the empty index, which is its root, and either no disposed
   page or one in the free chain; the buffer pool holds no page, with no
   frame malloc'ed yet or with its frames on the free list. *)
IndexFiles ==
    {[NoFile EXCEPT !.num_pages = 1, !.pages = <<ZeroPage>>,
                    !.exists = TRUE, !.root = 0, !.pool = pool] :
        pool \in {NoPool, UsedPool}}
    \cup
    {[NoFile EXCEPT !.num_pages = 3, !.pages = <<ZeroPage, ZeroPage, ZeroPage>>,
                    !.free = <<1>>, !.exists = TRUE, !.root = 0,
                    !.pool = pool] :
        pool \in {NoPool, UsedPool}}

(* What the bytes of an unwritten key or pointer may hold. *)
GarbageKeys == {Indet, 0}

InitBL ==
    /\ bl = BlNotStarted
    /\ blFile = NoFile
    /\ SpIdle
    /\ SfIdle
    /\ BpIdle

BlEnter(n, order, f, mallocOK, openErr) ==
    /\ bl.pc = "entry"
    /\ \E r \in {Enter(bl, Entries(n, order), n, order, f, mallocOK, openErr)} :
          bl' = r.bl /\ blFile' = r.file

BlLeaf(allocErr, unfixErr) ==
    /\ bl.pc = "leaves"
    /\ \E r \in {BuildLeaf(bl, blFile, allocErr, unfixErr)} :
          bl' = r.bl /\ blFile' = r.file

BlLevel ==
    /\ bl.pc = "level"
    /\ bl' = LevelHead(bl)
    /\ UNCHANGED blFile

BlInternal(allocErr, unfixErr, garbage) ==
    /\ bl.pc = "internal"
    /\ \E r \in {BuildInternal(bl, blFile, allocErr, unfixErr, garbage)} :
          bl' = r.bl /\ blFile' = r.file

BlRoot(garbage) ==
    /\ bl.pc = "root"
    /\ \E r \in {Finish(bl, blFile, garbage)} :
          \E after \in AfterUB(r.ub) :
             IF after = "killed"
             THEN bl' = [bl EXCEPT !.pc = "killed"] /\ UNCHANGED blFile
             ELSE bl' = r.bl /\ blFile' = r.file

BlEnterStep ==
    /\ \E n \in BlSizes, order \in BlOrders, f \in IndexFiles :
          \E fault \in {"none", "malloc", "open"} :
             BlEnter(n, order, f, fault # "malloc",
                     IF fault = "open" THEN PFE_UNIX ELSE PFE_OK)
    /\ UNCHANGED exceptBL

BlLeafStep ==
    /\ \E fault \in AllocFaults, unfixErr \in {PFE_OK, PFE_PAGEUNFIXED} :
          BlLeaf(fault, unfixErr)
    /\ UNCHANGED exceptBL

BlLevelStep == BlLevel /\ UNCHANGED exceptBL

BlInternalStep ==
    /\ \E fault \in AllocFaults, unfixErr \in {PFE_OK, PFE_PAGEUNFIXED},
          garbage \in GarbageKeys :
          BlInternal(fault, unfixErr, garbage)
    /\ UNCHANGED exceptBL

BlRootStep == (\E garbage \in GarbageKeys : BlRoot(garbage)) /\ UNCHANGED exceptBL

NextBL == BlEnterStep \/ BlLeafStep \/ BlLevelStep \/ BlInternalStep \/ BlRootStep

SpecBL == InitBL /\ [][NextBL]_vars

----------------------------------------------------------------------------
(* Claims about one slotted page (SpecSP). *)

(* End of the slot directory of page p. *)
DirEnd(p) == SP_HEADER_SIZE + NumSlots(p) * SP_SLOT_SIZE

(* The slots of p that SP_GetRecord and the scan treat as live. *)
LiveSlots(p) == {i \in 0..(NumSlots(p) - 1) : SlotOffset(p, i) # 0}

(* C2: in every page state reachable from SP_InitPage by inserts, deletes and
   compactions, free_space_offset is at or above the end of the slot
   directory and every live record lies between the end of the directory and
   the end of the page. *)
C2_RecordsClearOfDirectory ==
    /\ FreeOff(spPage) >= DirEnd(spPage)
    /\ \A i \in LiveSlots(spPage) :
          /\ SlotOffset(spPage, i) >= DirEnd(spPage)
          /\ SlotLength(spPage, i) >= 0
          /\ SlotOffset(spPage, i) + SlotLength(spPage, i) <= SP_PAGE_SIZE

----------------------------------------------------------------------------
(* Claims about the record file (SpecSF, SpecSI). *)

(* How many of the records in the sequence recs have the bytes b. *)
CountIn(recs, b) == Cardinality({i \in 1..Len(recs) : recs[i].record = b})

(* How many live records were inserted with the bytes b. *)
CountLive(b) == Cardinality({rid \in DOMAIN sfLive : sfLive[rid] = b})

(* C1: after any sequence of inserts and deletes of returned RecordIDs, a
   scan yields exactly the multiset of the inserted and not deleted records,
   and a get by RecordID yields the bytes inserted under that RecordID (and
   nothing for a deleted one). *)
C1_ScanAndGetReturnLiveRecords ==
    /\ sfLast.op = "scan" =>
          /\ Len(sfLast.records) = Cardinality(DOMAIN sfLive)
          /\ \A rid \in DOMAIN sfLive :
                CountIn(sfLast.records, sfLive[rid]) = CountLive(sfLive[rid])
    /\ sfLast.op = "get" =>
          IF sfLast.rid \in DOMAIN sfLive
          THEN sfLast.rc = SP_OK /\ sfLast.record = sfLive[sfLast.rid]
          ELSE sfLast.rc # SP_OK

(* The RecordIDs the last scan handed out, in the order of its calls. *)
ScanRids == [i \in 1..Len(sfLast.records) |-> sfLast.records[i].rid]

(* The RecordIDs of seq that lie on page p, in the order of seq. *)
OnPage(seq, p) == SelectSeq(seq, LAMBDA rid : rid[1] = p)

(* C27: on a file built by inserts alone, the scan loop ends after as many
   records as there were successful inserts, hands out every inserted record
   once with the bytes inserted, pages in ascending order, and the records of
   one page in the order in which they were inserted. *)
C27_ScanYieldsInsertsInOrder ==
    (sfLast.op = "scan" /\ sfOps[2] = 0) =>
        /\ ~sfLast.ub
        /\ Len(sfLast.records) = Len(sfOrder)
        /\ Len(sfLast.records) = sf.num_records
        /\ \A i, j \in 1..Len(ScanRids) :
               i < j => /\ ScanRids[i] # ScanRids[j]
                        /\ ScanRids[i][1] <= ScanRids[j][1]
        /\ \A p \in 0..(sf.num_pages - 1) : OnPage(ScanRids, p) = OnPage(sfOrder, p)
        /\ \A i \in 1..Len(ScanRids) :
               /\ ScanRids[i] \in DOMAIN sfLive
               /\ sfLast.records[i].record = sfLive[ScanRids[i]]

(* A scan went over two pages of a file built by inserts alone, the second
   page holding records of both sizes. *)
C27_Witness ==
    /\ sfLast.op = "scan" /\ sfOps[2] = 0 /\ sfState = "ok"
    /\ sf.num_pages = 2
    /\ Len(OnPage(ScanRids, 0)) > 1
    /\ Len(OnPage(ScanRids, 1)) > 1
    /\ \E i, j \in 1..Len(sfLast.records) :
           MLen(sfLast.records[i].record) # MLen(sfLast.records[j].record)

----------------------------------------------------------------------------
(* Claims about the buffer pool (SpecBP). *)

OnUsed(s, b) == \E i \in 1..Len(s.used) : s.used[i] = b

FrameKey(s, b) == <<s.frames[b].fd, s.frames[b].page>>

(* The frames on the used list that carry file fd. *)
FramesOf(s, fd) == {b \in 1..Len(s.frames) : OnUsed(s, b) /\ s.frames[b].fd = fd}

(* Where in ev the event of this kind for page k stands. *)
EvAt(ev, kind, k) ==
    {i \in 1..Len(ev) : ev[i][1] = kind /\ ev[i][2] = k[1] /\ ev[i][3] = k[2]}

(* C3: a page that a caller marked dirty (PFbufUnfix with dirty, PFbufUsed)
   and that was not written since stays in the pool with its dirty flag, and
   when PFbufGet or PFbufAlloc takes its frame as victim the write callback
   has returned PFE_OK for it before its hash entry is deleted, which in turn
   is before the frame is bound to the new page. *)
C3_DirtyWrittenBeforeRebind ==
    [][/\ \A k \in DOMAIN bpDirtied' :
             /\ PFhashFind(bp', k[1], k[2]) # NULL
             /\ bp'.frames[PFhashFind(bp', k[1], k[2])].dirty
       /\ bpLast'.op \in {"PFbufGet", "PFbufAlloc"} =>
             \A k \in DOMAIN bpDirtied :
                \A j \in EvAt(bpLast'.ev, "hashdel", k) :
                   /\ \E i \in EvAt(bpLast'.ev, "write", k) :
                         i < j /\ bpLast'.ev[i][4] = PFE_OK
                   /\ \A m \in 1..j : bpLast'.ev[m][1] # "bind"]_vars

(* A dirty page that was fetched again and unfixed with dirty = FALSE has
   been written out and its frame taken for another page. *)
C3_Witness ==
    /\ bpLast.op = "PFbufGet" /\ bpLast.rc = PFE_OK
    /\ \E x \in bpLast.flushed :
          /\ x[2] = 3
          /\ EvAt(bpLast.ev, "hashdel", x[1]) # {}
          /\ PFhashFind(bp, x[1][1], x[1][2]) = NULL

(* C4: a frame that is fixed stays on the used list, with its (fd, page) and
   its hash entry, through every buffer operation; only PFbufUnfix of its own
   page clears the fixed flag. *)
C4_PinnedFrameStays ==
    [][\A b \in 1..Len(bp.frames) :
          (OnUsed(bp, b) /\ bp.frames[b].fixed) =>
             /\ OnUsed(bp', b)
             /\ FrameKey(bp', b) = FrameKey(bp, b)
             /\ PFhashFind(bp', bp.frames[b].fd, bp.frames[b].page) = b
             /\ (bp'.frames[b].fixed
                 \/ (bpLast'.op = "PFbufUnfix"
                     /\ <<bpLast'.fd, bpLast'.page>> = FrameKey(bp, b)))]_vars

(* A victim was taken while another page stayed fixed. *)
C4_Witness ==
    /\ bpLast.op \in {"PFbufGet", "PFbufAlloc"} /\ bpLast.rc = PFE_OK
    /\ \E i \in 1..Len(bpLast.ev) : bpLast.ev[i][1] = "unlink"
    /\ \E b \in 1..Len(bp.frames) :
          /\ OnUsed(bp, b) /\ bp.frames[b].fixed
          /\ FrameKey(bp, b) # <<bpLast.fd, bpLast.page>>

(* C5: whenever a buffer operation has returned, with PFE_OK or an error,
   each frame on the used list is the one the hash table finds for its
   (fd, page), each hash entry leads to a frame on the used list with that
   (fd, page), and no two frames on the list carry the same (fd, page). *)
C5_UsedListMatchesHash ==
    /\ \A i \in 1..Len(bp.used) :
          PFhashFind(bp, bp.frames[bp.used[i]].fd, bp.frames[bp.used[i]].page)
             = bp.used[i]
    /\ \A k \in DOMAIN bp.hash :
          OnUsed(bp, bp.hash[k]) /\ FrameKey(bp, bp.hash[k]) = k
    /\ \A i, j \in 1..Len(bp.used) :
          i # j => /\ bp.used[i] # bp.used[j]
                   /\ FrameKey(bp, bp.used[i]) # FrameKey(bp, bp.used[j])

(* A PFbufGet evicted a page and then failed to read the new one, with
   another page still cached. *)
C5_Witness ==
    /\ bpLast.op = "PFbufGet" /\ bpLast.rc = PFE_INCOMPLETEREAD
    /\ \E i \in 1..Len(bpLast.ev) : bpLast.ev[i][1] = "hashdel"
    /\ Len(bp.used) >= 1 /\ Len(bp.free) >= 1

(* C6: when PFbufReleaseFile(fd) returns PFE_OK, each frame of fd that was
   dirty was written by the write callback before it was put on the free
   list, no frame of fd is left on the used list or in the hash table, the
   released frames are clean, and the frames and hash entries of other files
   are as they were, in the same order. *)
C6_ReleaseFlushesAndFrees ==
    [][(bpLast'.op = "PFbufReleaseFile" /\ bpLast'.rc = PFE_OK) =>
          /\ \A b \in FramesOf(bp, bpLast'.fd) :
                /\ bp.frames[b].dirty =>
                      \E i \in EvAt(bpLast'.ev, "write", FrameKey(bp, b)) :
                         \E j \in EvAt(bpLast'.ev, "free", FrameKey(bp, b)) :
                            i < j /\ bpLast'.ev[i][4] = PFE_OK
                /\ ~bp'.frames[b].dirty
                /\ \E i \in 1..Len(bp'.free) : bp'.free[i] = b
          /\ FramesOf(bp', bpLast'.fd) = {}
          /\ \A k \in DOMAIN bp'.hash : k[1] # bpLast'.fd
          /\ bp'.used = SelectSeq(bp.used, LAMBDA b : bp.frames[b].fd # bpLast'.fd)
          /\ \A i \in 1..Len(bp'.used) : bp'.frames[bp'.used[i]] = bp.frames[bp'.used[i]]
          /\ \A k \in DOMAIN bp.hash :
                k[1] # bpLast'.fd => (k \in DOMAIN bp'.hash /\ bp'.hash[k] = bp.hash[k])]_vars

(* A release wrote out a dirty page of the file while a dirty page of another
   file stayed in the pool. *)
C6_Witness ==
    /\ bpLast.op = "PFbufReleaseFile" /\ bpLast.rc = PFE_OK
    /\ \E i \in 1..Len(bpLast.ev) :
          bpLast.ev[i][1] = "write" /\ bpLast.ev[i][2] = bpLast.fd
    /\ \E b \in 1..Len(bp.frames) :
          OnUsed(bp, b) /\ bp.frames[b].dirty /\ bp.frames[b].fd # bpLast.fd

(* Some page of the file being released is fixed. *)
PinnedPageOf(s, fd) == \E b \in FramesOf(s, fd) : s.frames[b].fixed

(* C7 as stated: PFbufReleaseFile(fd), through which a file is closed,
   returns PFE_PAGEFIXED whenever a page of fd is fixed. *)
C7_CloseReturnsPageFixed ==
    [][(bpLast'.op = "PFbufReleaseFile" /\ PinnedPageOf(bp, bpLast'.fd)) =>
          bpLast'.rc = PFE_PAGEFIXED]_vars

(* C7 amended: PFbufReleaseFile(fd) fails whenever a page of fd is fixed, and
   leaves that page fixed in the pool; it returns PFE_PAGEFIXED unless the
   write callback failed for a dirty unfixed frame of fd that the scan met
   first, and then it returns the error of the callback. *)
C7_CloseFailsWhilePinned ==
    [][(bpLast'.op = "PFbufReleaseFile" /\ PinnedPageOf(bp, bpLast'.fd)) =>
          /\ bpLast'.rc # PFE_OK
          /\ PinnedPageOf(bp', bpLast'.fd)
          /\ \/ bpLast'.rc = PFE_PAGEFIXED
             \/ /\ bpLast'.rc = PFE_INCOMPLETEWRITE
                /\ bpLast'.ev # <<>>
                /\ \E b \in FramesOf(bp, bpLast'.fd) :
                      /\ bp.frames[b].dirty /\ ~bp.frames[b].fixed
                      /\ bpLast'.ev[Len(bpLast'.ev)]
                            = Evt("write", bpLast'.fd, bp.frames[b].page,
                                  PFE_INCOMPLETEWRITE)]_vars

(* A release stopped at a failed write while a page of the file was fixed. *)
C7_Witness ==
    /\ bpLast.op = "PFbufReleaseFile" /\ bpLast.rc = PFE_INCOMPLETEWRITE
    /\ PinnedPageOf(bp, bpLast.fd)

----------------------------------------------------------------------------
(* Claims about the bulk load (SpecBL). *)

(* The leaf loop has run to its end. *)
LeavesBuilt == bl.pc \in {"level", "internal", "root", "done", "killed"}

Page(p) == blFile.pages[p + 1]

(* The smallest key reachable from page p: the first key of the leftmost
   leaf below it. *)
RECURSIVE SmallestKey(_)
SmallestKey(p) ==
    IF Page(p).type = "I" THEN SmallestKey(Page(p).first_child)
    ELSE IF Page(p).entries = <<>> THEN Indet
    ELSE Page(p).entries[1][1]

(* C8: in every internal node the bulk load has written, over leaves or over
   internal nodes, each separator key equals the smallest key reachable
   through the child pointer stored with it. *)
C8_SeparatorIsSmallestOfRightChild ==
    \A p \in 0..(blFile.num_pages - 1) :
       Page(p).type = "I" =>
          \A j \in 1..Len(Page(p).entries) :
             Page(p).entries[j][1] = SmallestKey(Page(p).entries[j][2])

(* C9: once the leaves are built, the next-leaf field of each leaf is the
   page number PF_AllocPage returned for the leaf built after it, the last
   leaf carries -1, and no page is a leaf twice, whatever page numbers the
   allocator returned. *)
C9_LeavesLinkedInOrder ==
    LeavesBuilt =>
       /\ \A k \in 1..Len(bl.leaf_pages) :
             Page(bl.leaf_pages[k]).next_leaf =
                IF k < Len(bl.leaf_pages) THEN bl.leaf_pages[k + 1] ELSE 0 - 1
       /\ \A k, m \in 1..Len(bl.leaf_pages) :
             k # m => bl.leaf_pages[k] # bl.leaf_pages[m]

(* ceil(n / F). *)
CeilDiv(n, F) == CHOOSE m \in 0..n : m * F >= n /\ (m = 0 \/ (m - 1) * F < n)

RECURSIVE SumKeys(_)
SumKeys(k) ==
    IF k = 0 THEN 0 ELSE SumKeys(k - 1) + Page(bl.leaf_pages[k]).num_keys

(* C10: once the leaves are built, sorted_entries holds the input pairs in
   ascending key order, there are ceil(n / F) leaves, leaf i holds the sorted
   entries i*F .. min((i+1)*F, n) - 1 in order, its key count is the number
   of pairs written into it, and the key counts add up to n. *)
C10_LeavesPackSortedPairs ==
    LeavesBuilt =>
       /\ Len(bl.sorted_entries) = bl.num_records
       /\ {bl.sorted_entries[k] : k \in 1..bl.num_records}
             = {Entries(bl.num_records, bl.order)[k] : k \in 1..bl.num_records}
       /\ \A k \in 1..(bl.num_records - 1) :
             bl.sorted_entries[k][1] <= bl.sorted_entries[k + 1][1]
       /\ Len(bl.leaf_pages) = CeilDiv(bl.num_records, fill_factor)
       /\ \A i \in 0..(Len(bl.leaf_pages) - 1) :
             /\ Page(bl.leaf_pages[i + 1]).type = "L"
             /\ Page(bl.leaf_pages[i + 1]).entries
                   = SubSeq(bl.sorted_entries, i * fill_factor + 1,
                            Min((i + 1) * fill_factor, bl.num_records))
             /\ Page(bl.leaf_pages[i + 1]).num_keys
                   = Len(Page(bl.leaf_pages[i + 1]).entries)
       /\ SumKeys(Len(bl.leaf_pages)) = bl.num_records

(* A load of unsorted input ended with several leaves, the last partly
   filled. *)
C10_Witness ==
    /\ bl.pc = "done" /\ bl.order = "descending"
    /\ Len(bl.leaf_pages) > 2
    /\ Page(bl.leaf_pages[Len(bl.leaf_pages)]).num_keys \in 1..(fill_factor - 1)

----------------------------------------------------------------------------
(* Claims about the statistics counters, under SpecBS. *)

(* C11: stat_physical_writes goes up only when the page of a dirty frame is
   written out, on eviction or on release of its file, so that it never
   exceeds the number of write callbacks that succeeded since the counters
   were reset; the eviction or release of a clean frame adds nothing. *)
C11_PhysicalWritesAreDirtyWrites ==
    bpStat["physical_writes"] <= bpWrote

(* C12: since the last BUF_ResetStatistics, whatever the gets returned
   (PFE_PAGEFIXED, PFE_NOBUF and read errors included),
   logical_reads = buffer_hits + buffer_misses. *)
C12_ReadsAreHitsPlusMisses ==
    bpStat["logical_reads"] = bpStat["buffer_hits"] + bpStat["buffer_misses"]

(* A get has just failed for want of a buffer, after a get that found its
   page fixed and a get whose read failed. *)
C12_Witness ==
    /\ bpLast.op = "PFbufGet" /\ bpLast.rc = PFE_NOBUF
    /\ bpStat["buffer_hits"] >= 1
    /\ bpStat["buffer_misses"] >= bpStat["physical_reads"] + 2

----------------------------------------------------------------------------
(* Claims about the replacement policy, under SpecBP. *)

(* The pool can only make room by eviction. *)
PoolFull == Len(bp.frames) = PF_MAX_BUFS /\ bp.free = <<>>

(* The positions in bpTouched of the cached pages that are not pinned. *)
UnpinnedTouched ==
    {i \in 1..Len(bpTouched) : ~bp.frames[bp.hash[bpTouched[i]]].fixed}

(* This step is a PFbufGet or PFbufAlloc of a page that is not cached, made
   under the given strategy while the pool is full and some frame is
   unpinned. *)
EvictingCall(strategy) ==
    /\ bpLast = BpNoCall
    /\ bpLast'.op \in {"PFbufGet", "PFbufAlloc"}
    /\ <<bpLast'.fd, bpLast'.page>> \notin DOMAIN bp.hash
    /\ bpStrategy = strategy
    /\ PoolFull
    /\ UnpinnedTouched # {}

(* The call evicted page v, which sat in the frame at position pos of the
   used list, and no other page; or v was dirty, its write failed and the
   pool is as it was. *)
Evicted(v, pos) ==
    /\ FrameKey(bp, bp.used[pos]) = v
    /\ \/ /\ bpLast'.rc = PFE_INCOMPLETEWRITE
          /\ bp.frames[bp.hash[v]].dirty
          /\ bp' = bp
       \/ /\ bpLast'.rc # PFE_INCOMPLETEWRITE
          /\ v \notin DOMAIN bp'.hash
          /\ (DOMAIN bp.hash) \ {v} \subseteq DOMAIN bp'.hash

(* C13: under LRU, when the free list is empty and the pool is full, the
   victim is the unpinned frame nearest the tail of the used list, which
   holds the unpinned page whose last allocation, unfix or mark-used is the
   oldest; that page is gone from the pool (a following get of it is a
   miss) and every other page stays. *)
C13_LruEvictsOldestUnpinned ==
    [][EvictingCall("REPLACE_LRU")
         => Evicted(bpTouched[SetMax(UnpinnedTouched)], SetMax(Unfixed(bp)))]_vars

(* A get under LRU evicted a page while another unpinned page, touched
   later, stayed in the pool. *)
C13_Witness ==
    /\ bpLast.op = "PFbufGet" /\ bpLast.rc = PFE_OK
    /\ bpStrategy = "REPLACE_LRU"
    /\ \E i \in 1..Len(bpLast.ev) : bpLast.ev[i][1] = "hashdel"
    /\ \E b \in 1..Len(bp.frames) : OnUsed(bp, b) /\ ~bp.frames[b].fixed

(* C14: under MRU, when the free list is empty and the pool is full, the
   victim is the unpinned frame nearest the head of the used list, which
   holds the unpinned page most recently allocated, unfixed or marked used;
   every other page stays in the pool (a following get of it is a hit). *)
C14_MruEvictsNewestUnpinned ==
    [][EvictingCall("REPLACE_MRU")
         => Evicted(bpTouched[SetMin(UnpinnedTouched)], SetMin(Unfixed(bp)))]_vars

(* A get under MRU evicted a page while another unpinned page, touched
   earlier, stayed in the pool. *)
C14_Witness ==
    /\ bpLast.op = "PFbufGet" /\ bpLast.rc = PFE_OK
    /\ bpStrategy = "REPLACE_MRU"
    /\ \E i \in 1..Len(bpLast.ev) : bpLast.ev[i][1] = "hashdel"
    /\ \E b \in 1..Len(bp.frames) : OnUsed(bp, b) /\ ~bp.frames[b].fixed

----------------------------------------------------------------------------
(* Claims about the error returns of the pool, under SpecBP. *)

(* The page the call of this step names. *)
Asked == <<bpLast'.fd, bpLast'.page>>

(* C15: PFbufGet of a page that is cached and pinned returns PFE_PAGEFIXED
   and leaves the pool as it was: the frame's fixed and dirty flags, its fd
   and page, its place on the used list, and the hash table. *)
C15_GetOfPinnedPageFails ==
    [][(/\ bpLast = BpNoCall
        /\ bpLast'.op = "PFbufGet"
        /\ Asked \in DOMAIN bp.hash
        /\ bp.frames[bp.hash[Asked]].fixed)
         => (bpLast'.rc = PFE_PAGEFIXED /\ bp' = bp)]_vars

(* A get has just been refused for a pinned, dirty page that is not at the
   head of the used list. *)
C15_Witness ==
    /\ bpLast.op = "PFbufGet" /\ bpLast.rc = PFE_PAGEFIXED
    /\ bp.frames[bp.hash[<<bpLast.fd, bpLast.page>>]].dirty
    /\ Head(bp.used) # bp.hash[<<bpLast.fd, bpLast.page>>]

(* The pool holds PF_MAX_BUFS frames, none free and every one pinned. *)
Saturated == PoolFull /\ Len(bp.used) = PF_MAX_BUFS /\ Unfixed(bp) = {}

(* The call was refused for want of a buffer: nothing was written and the
   used list, the free list, the frames and the hash table are as before. *)
Refused ==
    /\ bpLast'.rc = PFE_NOBUF
    /\ Written(bpLast'.ev) = {}
    /\ bp' = bp

(* C16, as stated: in a saturated pool PFbufGet of a non-cached page and
   every PFbufAlloc fail with PFE_NOBUF, nothing is evicted or written, and
   the used list, the free list and the hash table are unchanged. *)
C16_SaturatedPoolRefusesGetAndAlloc ==
    [][(/\ bpLast = BpNoCall
        /\ Saturated
        /\ \/ bpLast'.op = "PFbufGet" /\ Asked \notin DOMAIN bp.hash
           \/ bpLast'.op = "PFbufAlloc")
         => Refused]_vars

(* C16, amended: in a saturated pool PFbufGet and PFbufAlloc of a non-cached
   page fail with PFE_NOBUF, and PFbufAlloc of a cached page fails with
   PFE_PAGEINBUF; in both cases nothing is evicted or written and the pool
   is unchanged. *)
C16_SaturatedPoolRefusesUncached ==
    [][(/\ bpLast = BpNoCall
        /\ Saturated
        /\ bpLast'.op \in {"PFbufGet", "PFbufAlloc"})
         => /\ Asked \notin DOMAIN bp.hash => Refused
            /\ (bpLast'.op = "PFbufAlloc" /\ Asked \in DOMAIN bp.hash)
                 => /\ bpLast'.rc = PFE_PAGEINBUF
                    /\ Written(bpLast'.ev) = {}
                    /\ bp' = bp]_vars

(* PFbufAlloc has just been refused by a pool whose frames are all pinned,
   one of them dirty. *)
C16_Witness ==
    /\ bpLast.op = "PFbufAlloc" /\ bpLast.rc = PFE_NOBUF
    /\ Len(bp.frames) = PF_MAX_BUFS /\ Len(bp.used) = PF_MAX_BUFS
    /\ Unfixed(bp) = {}
    /\ \E b \in 1..Len(bp.frames) : bp.frames[b].dirty

----------------------------------------------------------------------------
(* Further claims about one slotted page (SpecSP). *)

(* C17: whenever SP_InsertRecord(record, len) returns SP_OK with slot s, an
   SP_GetRecord(s) that follows at once returns SP_OK, the length len and
   the bytes of record; stated for the calls none of whose accesses leaves
   the page buffer. *)
C17_GetAfterInsertReturnsRecord ==
    [][(/\ spLast.op = "insert" /\ spLast.rc = SP_OK /\ ~spLast.ub
        /\ spLast'.op = "get" /\ spLast'.slot = spLast.slot /\ ~spLast'.ub)
         => /\ spLast'.rc = SP_OK
            /\ spLast'.rec_len = spLast.rec_len
            /\ spLast'.record = spLast.record]_vars

(* C18: a slot that was deleted and not reused by an insert since is not
   returned: SP_GetRecord of it returns SP_INVALID_SLOT and the scan does
   not hand out its RecordID, whatever was inserted into and deleted from
   other slots in between; stated for the calls that return to their
   caller. *)
C18_TombstoneIsNotReturned ==
    spState = "ok" =>
        /\ (spLast.op = "get" /\ spLast.slot \in spDead)
              => spLast.rc = SP_INVALID_SLOT
        /\ spLast.op = "scan"
              => \A i \in 1..Len(spLast.rids) : spLast.rids[i][2] \notin spDead

----------------------------------------------------------------------------
(* Claims about the end of the bulk load (SpecBL). *)

(* C19: when PF_AllocPage or PF_UnfixPage fails in the leaf loop or in the
   loop of an internal level, the index file is closed and destroyed by the
   time method3_bulk_load returns its error: no partial index file
   remains. *)
C19_FailedLoadLeavesNoFile ==
    [][(bl.pc \in {"leaves", "internal"} /\ bl'.pc = "failed")
          => (~blFile'.open /\ ~blFile'.exists)]_vars

(* C20: when the bulk load has built at least one internal level and has
   completed successfully, the index header of the closed file records the
   page number of the root, the single page of the top level. *)
C20_RootRecordedInHeader ==
    (bl.pc = "done" /\ bl.ret = "ok" /\ ~bl.parent_pages_null)
        => /\ bl.root_page = bl.parent_pages[1]
           /\ ~blFile.open
           /\ blFile.root = bl.root_page

----------------------------------------------------------------------------
(* Claims about the page traffic of the bulk load (SpecBL). *)

(* The pages the load has built so far: the leaves and the internal nodes. *)
BuiltPages ==
    {p \in 0..(blFile.num_pages - 1) : blFile.pages[p + 1].type \in {"L", "I"}}

TimesWritten(p) ==
    IF p \in DOMAIN blFile.written THEN blFile.written[p] ELSE 0

(* The internal nodes above n nodes of one level, all levels together. *)
RECURSIVE InternalNodes(_)
InternalNodes(n) ==
    IF n <= 1 THEN 0
    ELSE (n + max_entries_per_internal) \div (max_entries_per_internal + 1)
         + InternalNodes((n + max_entries_per_internal)
                             \div (max_entries_per_internal + 1))

(* The frames of the pool that hold a fixed page. *)
PinnedFrames ==
    {b \in 1..Len(blFile.pool.frames) :
        OnUsed(blFile.pool, b) /\ blFile.pool.frames[b].fixed}

(* C21: the bulk load gets each leaf and each internal page from one
   PF_AllocPage, unfixes it dirty once and never fetches it again: no page is
   written twice, and when the load has closed the file and returned, each
   page it built has been written exactly once, no other page has been
   written, and the number of page writes is num_leaf_pages plus the number
   of internal nodes. *)
C21_EachPageWrittenOnce ==
    /\ \A p \in 0..(blFile.num_pages - 1) : TimesWritten(p) <= 1
    /\ (bl.pc = "done" /\ bl.ret = "ok") =>
          /\ ~blFile.open
          /\ \A p \in 0..(blFile.num_pages - 1) :
                TimesWritten(p) = IF p \in BuiltPages THEN 1 ELSE 0
          /\ Cardinality(BuiltPages)
                = bl.num_leaf_pages + InternalNodes(bl.num_leaf_pages)

(* A load of more leaves than the pool has frames, with internal levels, has
   returned: pages were written when their frames were taken for later ones
   and at the close. *)
C21_Witness ==
    /\ bl.pc = "done" /\ bl.ret = "ok"
    /\ bl.num_leaf_pages > PF_MAX_BUFS
    /\ InternalNodes(bl.num_leaf_pages) > 1
    /\ Cardinality({p \in BuiltPages : TimesWritten(p) = 1})
          = bl.num_leaf_pages + InternalNodes(bl.num_leaf_pages)

(* C28: during the bulk load at most one page is fixed at any moment, and
   none between two turns of its loops or after its normal completion; so
   the next PF_AllocPage never fails with PFE_NOBUF, whatever else goes wrong
   in it, and the final PF_CloseFile does not fail with PFE_PAGEFIXED. *)
C28_OnePagePinnedAtATime ==
    /\ Cardinality(PinnedFrames) <= 1
    /\ bl.pc \in {"leaves", "level", "internal", "root", "done"}
          => PinnedFrames = {}
    /\ bl.pc \in {"leaves", "internal"}
          => \A fault \in AllocFaults :
                PF_AllocPage(blFile, fault).rc # PFE_NOBUF
    /\ bl.pc = "root" => PF_CloseFile(blFile).rc = PFE_OK

(* The loop of an internal level is about to allocate a page while every
   frame of the pool holds a page of the load. *)
C28_Witness ==
    /\ bl.pc = "internal"
    /\ Len(blFile.pool.used) = PF_MAX_BUFS
    /\ blFile.pool.free = <<>>
    /\ PinnedFrames = {}

----------------------------------------------------------------------------
(* Claims about the space accounting of the slotted page (SpecSQ, SpecSP). *)

(* An SP_InsertRecord, SP_DeleteRecord or SP_CompactPage call is made in this
   step. *)
InsertCalled == spOps' = spOps + 1 /\ spLast'.op = "insert"

CompactReturned ==
    spState = "ok" /\ spLast.op = "compact" /\ spLast.rc = SP_OK

(* The lengths of the live records in the first n slots of page p, summed. *)
RECURSIVE LiveBytes(_, _)
LiveBytes(p, n) ==
    IF n <= 0 THEN 0
    ELSE LiveBytes(p, n - 1)
         + (IF SlotOffset(p, n - 1) # 0 THEN SlotLength(p, n - 1) ELSE 0)

(* C22 as stated: after SP_CompactPage the directory holds no tombstone, so
   num_slots is the number of live records, and every surviving record starts
   strictly above free_space_offset. *)
C22_CompactedRecordsAboveBoundary ==
    CompactReturned =>
        /\ NumSlots(spPage) = Cardinality(LiveSlots(spPage))
        /\ \A i \in LiveSlots(spPage) : SlotOffset(spPage, i) > FreeOff(spPage)

(* C22 amended: after an SP_CompactPage that stayed within its buffers the
   directory holds no tombstone, every surviving record starts at or above
   free_space_offset, and the last record copied starts exactly there. *)
C22_CompactedRecordsFromBoundary ==
    (CompactReturned /\ ~spLast.ub) =>
        /\ NumSlots(spPage) = Cardinality(LiveSlots(spPage))
        /\ \A i \in LiveSlots(spPage) : SlotOffset(spPage, i) >= FreeOff(spPage)
        /\ NumSlots(spPage) > 0 =>
               SlotOffset(spPage, NumSlots(spPage) - 1) = FreeOff(spPage)

(* A compaction kept two records, the second one packed below the first. *)
C22_Witness ==
    /\ CompactReturned /\ ~spLast.ub /\ spClean
    /\ NumSlots(spPage) = 2
    /\ SlotLength(spPage, 0) > 0 /\ SlotLength(spPage, 1) > 0
    /\ SlotOffset(spPage, 1) = SlotOffset(spPage, 0) - SlotLength(spPage, 1)

(* C23: right after SP_CompactPage the lengths of the live records, the slot
   directory, the header and free_space_size add up to the page size. *)
C23_CompactedPageAddsUp ==
    (CompactReturned /\ ~spLast.ub) =>
        LiveBytes(spPage, NumSlots(spPage)) + NumSlots(spPage) * SP_SLOT_SIZE
            + SP_HEADER_SIZE + FreeSize(spPage) = SP_PAGE_SIZE

(* A compaction returned on a page that keeps two records of different
   lengths. *)
C23_Witness ==
    /\ CompactReturned /\ ~spLast.ub /\ spClean
    /\ NumSlots(spPage) = 2
    /\ SlotLength(spPage, 0) > SlotLength(spPage, 1)
    /\ SlotLength(spPage, 1) > 0

(* C24: free_space_size is never negative, whatever inserts, deletes of slots
   from 0 on and compactions were made, as long as none of them left the page
   buffer. *)
C24_FreeSpaceNeverNegative ==
    (spState = "ok" /\ spClean) => FreeSize(spPage) >= 0

(* C25: an SP_InsertRecord that reuses a tombstone lowers free_space_size by
   rec_len, and one that appends a slot lowers it by rec_len + SP_SLOT_SIZE. *)
C25_ReuseChargesRecordOnly ==
    [][(InsertCalled /\ spLast'.rc = SP_OK /\ spClean') =>
           FreeSize(spPage') =
               FreeSize(spPage) - spLast'.rec_len
                   - (IF spLast'.slot < NumSlots(spPage) THEN 0 ELSE SP_SLOT_SIZE)]_vars

(* C26: into a page fresh from SP_InitPage a record of 4060 bytes goes in and
   one of 4061 bytes gets SP_NO_SPACE, and every SP_InsertRecord that returns
   SP_NO_SPACE leaves every byte of the page as it was. *)
C26_FullPageBoundary ==
    [][InsertCalled =>
           /\ (spOps = 0
                /\ spLast'.rec_len = SP_PAGE_SIZE - SP_HEADER_SIZE - SP_SLOT_SIZE)
                  => spLast'.rc = SP_OK
           /\ (spOps = 0
                /\ spLast'.rec_len = SP_PAGE_SIZE - SP_HEADER_SIZE - SP_SLOT_SIZE + 1)
                  => spLast'.rc = SP_NO_SPACE
           /\ spLast'.rc = SP_NO_SPACE => spPage' = spPage]_vars

(* The first insert put 4060 bytes into slot 0 and the insert just made was
   turned away. *)
C26_Witness ==
    /\ spClean /\ spLast.op = "insert" /\ spLast.rc = SP_NO_SPACE
    /\ NumSlots(spPage) = 1 /\ SlotOffset(spPage, 0) = DirEnd(spPage)
    /\ SlotLength(spPage, 0) = SP_PAGE_SIZE - SP_HEADER_SIZE - SP_SLOT_SIZE

----------------------------------------------------------------------------
(* Claims about the replacement mode (SpecBM). *)

(* This step is the call of BUF_SetStrategy. *)
StrategyCalled == bpLast = BpNoCall /\ bpLast'.op = "BUF_SetStrategy"

(* The call of this step evicted the page in the frame at position pos of
   the used list and no other page. *)
EvictedAt(pos) == Evicted(FrameKey(bp, bp.used[pos]), pos)

(* C29: BUF_SetStrategy leaves the frames, their fixed and dirty flags, the
   used and free lists, the hash table and the counters as they are, and a
   call that has to evict takes the unpinned frame that the mode in force at
   that call picks from the used list as it then stands: the one nearest the
   tail under LRU, the one nearest the head under MRU, whatever mode was in
   force when the frames were pinned or unpinned. *)
C29_StrategyOnlySetsMode ==
    [][/\ StrategyCalled =>
             /\ bp' = bp /\ bpDirtied' = bpDirtied /\ bpTouched' = bpTouched
             /\ bpStat' = bpStat /\ bpWrote' = bpWrote
             /\ bpStrategy' \in {"REPLACE_LRU", "REPLACE_MRU"}
       /\ EvictingCall("REPLACE_LRU") => EvictedAt(SetMax(Unfixed(bp)))
       /\ EvictingCall("REPLACE_MRU") => EvictedAt(SetMin(Unfixed(bp)))]_vars

(* A call evicted a page that was pinned under LRU and unpinned under MRU,
   while another unpinned page stayed in the pool. *)
C29_Witness ==
    /\ bpLast.op \in {"PFbufGet", "PFbufAlloc"} /\ bpLast.rc = PFE_OK
    /\ \E k \in (DOMAIN bpModes) \ (DOMAIN bp.hash) : bpModes[k] = "lru_mru"
    /\ \E b \in 1..Len(bp.frames) : OnUsed(bp, b) /\ ~bp.frames[b].fixed

----------------------------------------------------------------------------
(* Claims about a release that meets a pinned page (SpecBM). *)

(* This step is a PFbufReleaseFile that returns PFE_PAGEFIXED. *)
ReleaseRefused ==
    /\ bpLast = BpNoCall
    /\ bpLast'.op = "PFbufReleaseFile" /\ bpLast'.rc = PFE_PAGEFIXED

(* Where on the used list of s the first fixed frame of fd stands. *)
FirstPinnedAt(s, fd) ==
    SetMin({i \in 1..Len(s.used) :
               s.frames[s.used[i]].fd = fd /\ s.frames[s.used[i]].fixed})

(* The frames of fd that stand before its first fixed frame on the used
   list. *)
AheadOfPinned(s, fd) ==
    {s.used[i] : i \in {j \in 1..(FirstPinnedAt(s, fd) - 1) :
                            s.frames[s.used[j]].fd = fd}}

(* C30 as stated: a PFbufReleaseFile that returns PFE_PAGEFIXED has written
   nothing and leaves the pool as it was before the call. *)
C30_RefusedReleaseIsAtomic ==
    [][ReleaseRefused => (bp' = bp /\ bpLast'.ev = <<>>)]_vars

(* C30 amended: a PFbufReleaseFile that returns PFE_PAGEFIXED has released
   the frames of fd that stand before the first fixed frame of fd on the used
   list (written if dirty, out of the hash table, on the free list) and
   leaves the fixed frame, every frame behind it and the frames of other
   files as they were; the pool is unchanged only if no frame of fd stands
   before the fixed one. *)
C30_RefusedReleaseStopsAtPinned ==
    [][ReleaseRefused =>
          /\ PinnedPageOf(bp, bpLast'.fd)
          /\ \A b \in AheadOfPinned(bp, bpLast'.fd) :
                /\ bp.frames[b].dirty =>
                      \E i \in EvAt(bpLast'.ev, "write", FrameKey(bp, b)) :
                         bpLast'.ev[i][4] = PFE_OK
                /\ ~bp'.frames[b].dirty
                /\ FrameKey(bp, b) \notin DOMAIN bp'.hash
                /\ \E i \in 1..Len(bp'.free) : bp'.free[i] = b
          /\ bp'.used = SelectSeq(bp.used,
                                  LAMBDA b : b \notin AheadOfPinned(bp, bpLast'.fd))
          /\ \A i \in 1..Len(bp'.used) :
                bp'.frames[bp'.used[i]] = bp.frames[bp'.used[i]]
          /\ \A k \in DOMAIN bp.hash :
                bp.hash[k] \notin AheadOfPinned(bp, bpLast'.fd)
                    => (k \in DOMAIN bp'.hash /\ bp'.hash[k] = bp.hash[k])
          /\ (AheadOfPinned(bp, bpLast'.fd) = {}) <=> (bp' = bp)]_vars

(* A release was refused after it had written and freed a dirty page of the
   file. *)
C30_Witness ==
    /\ bpLast.op = "PFbufReleaseFile" /\ bpLast.rc = PFE_PAGEFIXED
    /\ \E i, j \in 1..Len(bpLast.ev) :
           /\ i < j
           /\ bpLast.ev[i][1] = "write" /\ bpLast.ev[j][1] = "free"
    /\ \E b \in 1..Len(bp.frames) : OnUsed(bp, b) /\ bp.frames[b].fixed

----------------------------------------------------------------------------
(* Claims about the root of the bulk load (SpecBL). *)

(* C31: for every number n >= 1 of records, a bulk load that meets no failing
   call returns normally with root_page the single page of the topmost level
   it built; when the records fit into one leaf (n <= fill_factor) no
   internal level is built and root_page is that leaf. *)
C31_RootIsTopmostPage ==
    (bl.num_records >= 1 /\ bl.pc \in {"done", "killed"}) =>
        /\ bl.pc = "done" /\ bl.ret = "ok"
        /\ bl.num_children = 1
        /\ bl.root_page = bl.child_pages[1]
        /\ bl.num_records <= fill_factor =>
              /\ bl.parent_pages_null
              /\ bl.child_pages = bl.leaf_pages
              /\ blFile.pages[bl.root_page + 1].type = "L"

----------------------------------------------------------------------------
(* Claims about the record counter and the placement of records (SpecSD). *)

(* The live slots of all pages of the file. *)
LiveInFile ==
    UNION {{<<p, i>> : i \in LiveSlots(sfDisk[p + 1])} :
              p \in 0..(Len(sfDisk) - 1)}

(* C32: on a file created empty and opened once, after any sequence of
   SF_InsertStudent and SF_DeleteStudent calls, the same RecordID deleted
   twice included, sf.num_records is the number of live slots over all pages
   and is not negative. *)
C32_NumRecordsCountsLiveSlots ==
    sfState = "ok" =>
        /\ sf.num_records = Cardinality(LiveInFile)
        /\ sf.num_records >= 0

----------------------------------------------------------------------------
(* Claims about the slot an insert takes and about compaction (SpecSQ). *)

(* The tombstones of the directory of p: entries with offset 0 and length 0. *)
Tombstones(p) ==
    {i \in 0..(NumSlots(p) - 1) : SlotOffset(p, i) = 0 /\ SlotLength(p, i) = 0}

(* The insert of this step took the lowest tombstone, or with none in the
   directory the new slot num_slots, which it then counts. *)
TookLowestTombstone ==
    IF Tombstones(spPage) # {}
    THEN /\ spLast'.slot \in Tombstones(spPage)
         /\ \A j \in Tombstones(spPage) : spLast'.slot <= j
         /\ NumSlots(spPage') = NumSlots(spPage)
    ELSE /\ spLast'.slot = NumSlots(spPage)
         /\ NumSlots(spPage') = NumSlots(spPage) + 1

(* The records that were live before the insert of this step are live under
   the same slot numbers, with the same offset and length. *)
OtherSlotsKept ==
    \A i \in LiveSlots(spPage) \ {spLast'.slot} :
       /\ SlotOffset(spPage', i) = SlotOffset(spPage, i)
       /\ SlotLength(spPage', i) = SlotLength(spPage, i)

(* C33: an SP_InsertRecord that returns SP_OK returns the lowest tombstoned
   slot when the directory holds a tombstone and otherwise the new slot
   num_slots, which it adds to the directory; the other live records keep
   their slots.  Stated for the calls that stay within the page buffer, on
   pages no earlier call has left. *)
C33_InsertTakesLowestTombstone ==
    [][(InsertCalled /\ spLast'.rc = SP_OK /\ spClean') =>
           TookLowestTombstone /\ OtherSlotsKept]_vars

CompactCalled == spOps' = spOps + 1 /\ spLast'.op = "compact"

(* The (length, bytes) of the live records of p from slot i on, in ascending
   slot order. *)
RECURSIVE LiveRecords(_, _)
LiveRecords(p, i) ==
    IF i >= NumSlots(p) THEN <<>>
    ELSE (IF SlotOffset(p, i) # 0
          THEN << <<SlotLength(p, i),
                    LoadClip(p, SlotOffset(p, i), SlotLength(p, i))>> >>
          ELSE <<>>)
         \o LiveRecords(p, i + 1)

(* The lengths of the records in slots 0..k of p, summed. *)
RECURSIVE LengthsTo(_, _)
LengthsTo(p, k) == IF k < 0 THEN 0 ELSE LengthsTo(p, k - 1) + SlotLength(p, k)

(* Every slot of p holds a record, each one directly below the one of the
   slot before, the first one ending at the page end. *)
PackedFromEnd(p) ==
    \A k \in 0..(NumSlots(p) - 1) :
       SlotOffset(p, k) = SP_PAGE_SIZE - LengthsTo(p, k)

(* C34: SP_CompactPage keeps the live records: the (length, bytes) of the
   live slots in ascending slot order are the same before and after, the
   records lie packed from the page end downward in that order, and a second
   compaction leaves the page as the first one left it.  Stated for the
   calls that stay within their buffers, on pages no earlier call has
   left. *)
C34_CompactionKeepsLiveRecords ==
    [][(CompactCalled /\ spLast'.rc = SP_OK /\ spClean') =>
           /\ LiveRecords(spPage', 0) = LiveRecords(spPage, 0)
           /\ Len(LiveRecords(spPage', 0)) = NumSlots(spPage')
           /\ PackedFromEnd(spPage')
           /\ SP_CompactPage(spPage', TRUE).page = spPage']_vars

(* A compaction has moved the record of the second insert from slot 1 into
   slot 0 and up to the page end, over the record deleted from slot 0; part
   of its old copy still lies below free_space_offset. *)
C34_Witness ==
    /\ CompactReturned /\ spClean /\ spOps = 4
    /\ NumSlots(spPage) = 1
    /\ SlotLength(spPage, 0) = 2000
    /\ SlotOffset(spPage, 0) = SP_PAGE_SIZE - 2000
    /\ MByte(spPage, SP_PAGE_SIZE - 1) = 65 + 1 + 128
    /\ MByte(spPage, FreeOff(spPage) - 1) = 65 + 1 + 128

(* SF_InsertStudent is called in this step and returns to its caller. *)
SfInsertCalled ==
    sfOps'[1] = sfOps[1] + 1 /\ sfLast'.op = "insert" /\ sfState' = "ok"

(* The pages of the file, before the step, on which SP_InsertRecord of
   buffer succeeds. *)
Accepting(buffer) ==
    {pn \in 0..(sf.num_pages - 1) :
        SP_InsertRecord(sfDisk[pn + 1], buffer, MLen(buffer)).rc = SP_OK}

(* The pages other than pn are as they were. *)
OtherPagesKept(pn) ==
    \A q \in 0..(Len(sfDisk) - 1) : q # pn => sfDisk'[q + 1] = sfDisk[q + 1]

(* The record of the successful insert of this step went to the lowest page
   that accepts it, or with none to slot 0 of a page appended to the file. *)
PlacedFirstFit(rid, buffer) ==
    /\ sf'.num_records = sf.num_records + 1
    /\ OtherPagesKept(rid[1])
    /\ IF Accepting(buffer) # {}
       THEN /\ rid[1] \in Accepting(buffer)
            /\ \A pn \in Accepting(buffer) : rid[1] <= pn
            /\ sf'.num_pages = sf.num_pages
            /\ Len(sfDisk') = Len(sfDisk)
       ELSE /\ rid = <<sf.num_pages, 0>>
            /\ sf'.num_pages = sf.num_pages + 1
            /\ Len(sfDisk') = Len(sfDisk) + 1

(* A record that not even a fresh page takes. *)
TooLong == Fill(SP_PAGE_SIZE - SP_HEADER_SIZE - SP_SLOT_SIZE + 1, CH_ZERO)

(* The insert of a record no page takes returns SP_ERROR and leaves the
   StudentFile and the pages as they are. *)
RejectedCleanly(r) == r.rc = SP_ERROR /\ r.sf = sf /\ r.disk = sfDisk

(* C35: SF_InsertStudent is first-fit: the RecordID returned names the
   lowest-numbered existing page on which SP_InsertRecord succeeds; only when
   no existing page accepts is a page appended (num_pages + 1) and the record
   put into its slot 0; a record that even a fresh page rejects leaves
   num_pages and num_records as they are and gets an error. *)
C35_InsertIsFirstFit ==
    [][(SfInsertCalled /\ ~sfLast'.ub) =>
           /\ IF sfLast'.rc = SP_OK
              THEN PlacedFirstFit(sfLast'.rid, sfLive'[sfLast'.rid])
              ELSE sfLast'.rc = SP_ERROR /\ sf' = sf /\ sfDisk' = sfDisk
           /\ RejectedCleanly(InsertBuffer(sf, sfDisk, TooLong, 0))]_vars

(* An insert went to page 0, where a delete had made room, although page 1
   would have taken the record as well. *)
C35_Witness ==
    /\ sfState = "ok" /\ sfLast.op = "insert" /\ sfLast.rc = SP_OK /\ ~sfLast.ub
    /\ sf.num_pages = 2
    /\ sfLast.rid[1] = 0
    /\ FreeSize(sfDisk[2]) >= SpaceNeeded(MLen(sfLive[sfLast.rid]))

----------------------------------------------------------------------------
(* Claims about what a call counts, under SpecBS. *)

(* PFbufGet is called in this step. *)
GetCalled == BpReturned /\ bpLast'.op = "PFbufGet"

(* The get of this step found its page in the pool, not fixed, and handed it
   out. *)
PlainHit ==
    /\ PFhashFind(bp, bpLast'.fd, bpLast'.page) # NULL
    /\ bpLast'.rc = PFE_OK

(* C36: stat_buffer_hits goes up by one in exactly the gets that find the
   page in the pool and not fixed, and so return PFE_OK; a get that returns
   PFE_PAGEFIXED counts no hit, and no other call counts one. *)
C36_HitsAreSuccessfulCachedGets ==
    [][IF GetCalled /\ PlainHit
       THEN bpStat'["buffer_hits"] = bpStat["buffer_hits"] + 1
       ELSE bpLast'.op = "BUF_ResetStatistics"
            \/ bpStat'["buffer_hits"] = bpStat["buffer_hits"]]_vars

(* PFbufUnfix is called in this step. *)
UnfixCalled == BpReturned /\ bpLast'.op = "PFbufUnfix"

(* C37: a PFbufUnfix that fails, with PFE_PAGENOTINBUF or PFE_PAGEUNFIXED,
   changes nothing: the frames with their fixed and dirty flags, the order
   of the used list and every counter are as before the call; so
   stat_logical_writes goes up by one in exactly the unfixes with dirty =
   TRUE that return PFE_OK. *)
C37_FailedUnfixChangesNothing ==
    [][/\ (UnfixCalled /\ bpLast'.rc # PFE_OK) => bp' = bp /\ bpStat' = bpStat
       /\ IF UnfixCalled /\ bpLast'.rc = PFE_OK /\ bpLast'.dirty
          THEN bpStat'["logical_writes"] = bpStat["logical_writes"] + 1
          ELSE bpLast'.op = "BUF_ResetStatistics"
               \/ bpStat'["logical_writes"] = bpStat["logical_writes"]]_vars

----------------------------------------------------------------------------
(* Claims about slot numbers outside the directory (SpecSP). *)

(* SP_DeleteRecord or SP_GetRecord is called in this step. *)
SlotCalled ==
    /\ spLast = NoCall \/ spLast.op \in {"insert", "delete", "compact"}
    /\ spLast'.op \in {"delete", "get"}

(* C38: SP_GetRecord and SP_DeleteRecord return SP_INVALID_SLOT for every
   slot number outside 0 .. num_slots - 1, the negative ones included, and
   the page is as it was: nothing of it was written, and no access left the
   buffer. *)
C38_SlotOutOfRangeIsRejected ==
    [][(SlotCalled /\ spLast'.slot \notin 0..(NumSlots(spPage) - 1)) =>
           /\ spLast'.rc = SP_INVALID_SLOT
           /\ ~spLast'.ub
           /\ spPage' = spPage]_vars

----------------------------------------------------------------------------
(* Claims about the internal nodes of the bulk load (SpecBL). *)

(* The pages of the index file that hold an internal node. *)
InternalPages == {p \in 0..(Len(blFile.pages) - 1) : Page(p).type = "I"}

(* C39: every internal node the bulk load writes has at least two children,
   that is at least one separator key, and at most
   max_entries_per_internal + 1 children, whatever the number of children at
   the level below. *)
C39_InternalNodesHaveTwoChildren ==
    \A p \in InternalPages :
        /\ Page(p).num_keys + 1 >= 2
        /\ Page(p).num_keys + 1 <= max_entries_per_internal + 1

----------------------------------------------------------------------------
(* Claims about the size of the pool (SpecBP). *)

(* How many times the frame is linked into the list. *)
TimesOn(list, bpage) == Cardinality({i \in 1..Len(list) : list[i] = bpage})

(* C40: after every call to the pool, those that return an error included
   (a read that fails on a miss, a victim whose write fails, PFE_NOBUF), at
   most PF_MAX_BUFS frames are allocated and each of them is on exactly one
   of the used list and the free list, so that at most PF_MAX_BUFS pages
   are cached. *)
C40_AtMostMaxBufsFrames ==
    /\ Len(bp.frames) <= PF_MAX_BUFS
    /\ \A b \in 1..Len(bp.frames) :
          TimesOn(bp.used, b) + TimesOn(bp.free, b) = 1
    /\ \A i \in 1..Len(bp.used) : bp.used[i] \in 1..Len(bp.frames)
    /\ \A i \in 1..Len(bp.free) : bp.free[i] \in 1..Len(bp.frames)
    /\ Cardinality(DOMAIN bp.hash) <= PF_MAX_BUFS

(* A get of a page that is not cached has just failed in its read, in a full
   pool: the victim it evicted is gone and its frame is on the free list. *)
C40_Witness ==
    /\ bpLast.op = "PFbufGet" /\ bpLast.rc = PFE_INCOMPLETEREAD
    /\ \E i \in 1..Len(bpLast.ev) : bpLast.ev[i][1] = "unlink"
    /\ Len(bp.frames) = PF_MAX_BUFS
    /\ Len(bp.free) = 1
    /\ Len(bp.used) = PF_MAX_BUFS - 1

============================================================================
